---------------------------- MODULE Spec2Model ----------------------------
(***************************************************************************)
(* A model of EGS_Mesh (egs_mesh.cpp): construction of the tetrahedral     *)
(* mesh from node / element / medium records, the two octrees, and the     *)
(* queries isWhere, howfar, hownear and medium.                            *)
(*                                                                         *)
(* Numbers.  Node coordinates and query positions are integers.  All the  *)
(* quantities the code derives from them are then rationals, which are     *)
(* carried exactly:                                                        *)
(*   - a distance is a pair <<n, d>> (n / d, d > 0); d = 0 marks the two   *)
(*     huge sentinels the code uses (1e30 and DBL_MAX);                    *)
(*   - a unit direction is an integer vector with a denominator;           *)
(*   - a normalised normal is kept as its integer direction (the code only *)
(*     reads its sign against other vectors, or hands it back);            *)
(*   - a bounding box bound is a + b*delta, delta = 1e-8 the expansion of  *)
(*     the root box, kept as <<a, b>> in units of 1/S (see Dual numbers).  *)
(***************************************************************************)
EXTENDS Integers, Sequences, FiniteSets, TLC

VARIABLES
    pc,                \* where the object is in its life: see InitWith
    thrown,            \* what() of the exception that ended construction
    in_elements,       \* constructor argument: element records
    in_nodes,          \* constructor argument: node records
    in_materials,      \* constructor argument: medium records
    nreg,              \* EGS_BaseGeometry::nreg
    elt_tags,          \* _elt_tags
    elt_node_indices,  \* _elt_node_indices
    nodes,             \* _nodes
    medium_names,      \* _medium_names
    medium_indices,    \* _medium_indices
    neighbours,        \* _neighbours
    boundary_faces,    \* _boundary_faces
    face_normals,      \* _face_normals
    volume_tree,       \* _volume_tree
    surface_tree,      \* _surface_tree
    halfBoundaryTolerance, \* EGS_BaseGeometry::halfBoundaryTolerance
    dyninp,            \* EGS_DynamicShape: the time indices of the input
    cpts,              \* EGS_DynamicShape::cpts
    call               \* the last query: its arguments and what it returned

NoCall == [op |-> "none"]

meshvars == <<nreg, elt_tags, elt_node_indices, nodes, medium_names,
              medium_indices, neighbours, boundary_faces, face_normals,
              volume_tree, surface_tree>>
invars == <<in_elements, in_nodes, in_materials, halfBoundaryTolerance>>
shapevars == <<dyninp, cpts>>
vars == <<pc, thrown, invars, meshvars, shapevars, call>>

----------------------------------------------------------------------------
(* Integers and integer vectors <<x, y, z>>.                               *)

Abs(a) == IF a < 0 THEN -a ELSE a
Min2(a, b) == IF b < a THEN b ELSE a
Max2(a, b) == IF a < b THEN b ELSE a
Sgn(a) == IF a < 0 THEN -1 ELSE IF a = 0 THEN 0 ELSE 1

RECURSIVE Gcd(_, _)
Gcd(a, b) == IF b = 0 THEN a ELSE Gcd(b, a % b)

VSub(p, q) == <<p[1] - q[1], p[2] - q[2], p[3] - q[3]>>
VAdd(p, q) == <<p[1] + q[1], p[2] + q[2], p[3] + q[3]>>
VScale(k, p) == <<k * p[1], k * p[2], k * p[3]>>
VNeg(p) == <<-p[1], -p[2], -p[3]>>
dot(p, q) == p[1] * q[1] + p[2] * q[2] + p[3] * q[3]
cross(p, q) == <<p[2] * q[3] - p[3] * q[2],
                 p[3] * q[1] - p[1] * q[3],
                 p[1] * q[2] - p[2] * q[1]>>
length2(p) == dot(p, p)

\* The set of the values of a function or sequence.
Range(f) == {f[i] : i \in DOMAIN f}
\* The smallest element of a non-empty finite set of integers.
SetMin(S) == CHOOSE m \in S : \A k \in S : m <= k
\* A C++ vector as a function on 0 .. size-1.
Vec0(s) == [i \in 0 .. (Len(s) - 1) |-> s[i + 1]]
size(v) == Cardinality(DOMAIN v)
EmptyVec == Vec0(<<>>)

----------------------------------------------------------------------------
(* Constructor arguments.                                                  *)

NodeRec(tag, p) == [tag |-> tag, x |-> p[1], y |-> p[2], z |-> p[3]]
TetRec(tag, medium_tag, abcd) ==
    [tag |-> tag, medium_tag |-> medium_tag,
     a |-> abcd[1], b |-> abcd[2], c |-> abcd[3], d |-> abcd[4]]
MediumRec(tag, name) == [tag |-> tag, medium_name |-> name]

\* Tags of the records drawn run over 1 .. MaxTag.
MaxTag == 6

\* Two tetrahedra sharing the face {2, 3, 4}, a third one behind the second.
BasePoints == << <<0, 0, 0>>, <<4, 0, 0>>, <<0, 4, 0>>, <<0, 0, 4>>,
                 <<4, 4, 4>>, <<8, 4, 4>> >>
BaseNodes == [i \in 1 .. 5 |-> NodeRec(i, BasePoints[i])]
BaseMedia == << MediumRec(1, "water"), MediumRec(2, "bone") >>
BaseElements == << TetRec(1, 1, <<1, 2, 3, 4>>), TetRec(2, 2, <<2, 3, 4, 5>>) >>

\* Node lists whose tags are drawn freely: duplicates at every position.
NodeTagInputs ==
    { [elements |-> BaseElements,
       nodes |-> [i \in 1 .. 5 |-> NodeRec(tg[i], BasePoints[i])],
       materials |-> BaseMedia] : tg \in [1 .. 5 -> 1 .. MaxTag] }

\* Element lists whose first element names its four nodes freely.
ElementRefInputs ==
    { [elements |-> << TetRec(1, 1, abcd), TetRec(2, 2, <<2, 3, 4, 5>>) >>,
       nodes |-> BaseNodes,
       materials |-> BaseMedia] : abcd \in [1 .. 4 -> 1 .. MaxTag] }

\* Medium records and element medium tags drawn freely.
MediumTagInputs ==
    { [elements |-> << TetRec(1, et[1], <<1, 2, 3, 4>>),
                       TetRec(2, et[2], <<2, 3, 4, 5>>) >>,
       nodes |-> BaseNodes,
       materials |-> << MediumRec(mt[1], "water"), MediumRec(mt[2], "bone") >>]
      : et \in [1 .. 2 -> 1 .. MaxTag], mt \in [1 .. 2 -> 1 .. MaxTag] }

\* Three elements over six nodes, the third naming its four nodes freely:
\* it may lie on the face {2, 3, 4} that the first two share.
ThirdElementInputs ==
    { [elements |-> << TetRec(1, 1, <<1, 2, 3, 4>>), TetRec(2, 2, <<2, 3, 4, 5>>),
                       TetRec(3, 1, abcd) >>,
       nodes |-> [i \in 1 .. 6 |-> NodeRec(i, BasePoints[i])],
       materials |-> BaseMedia] : abcd \in [1 .. 4 -> 1 .. MaxTag] }

BuildInputs ==
    NodeTagInputs \cup ElementRefInputs \cup MediumTagInputs
        \cup ThirdElementInputs

\* A graded mesh: a block of 4 x 3 x 3 unit cubes, each cut into the 6
\* tetrahedra of the Kuhn triangulation (216 elements, tags 2 .. 217), and
\* one large tetrahedron (tag 1) of edge 60 that touches the block in the
\* corner node at the origin.  Lattice node n = 0 .. 79 sits at
\* (-4 + n % 5, -3 + (n \div 5) % 4, -3 + n \div 20) and has tag n + 1.
LatticePoint(n) == <<-4 + (n % 5), -3 + ((n \div 5) % 4), -3 + (n \div 20)>>
LatticeTag(p) == (p[1] + 4) + 5 * (p[2] + 3) + 20 * (p[3] + 3) + 1
GradedNodes ==
    [i \in 1 .. 83 |->
        IF i <= 80 THEN NodeRec(i, LatticePoint(i - 1))
        ELSE NodeRec(i, [k \in 1 .. 3 |-> IF k = i - 80 THEN 60 ELSE 0])]
Perms3 == << <<1, 2, 3>>, <<1, 3, 2>>, <<2, 1, 3>>, <<2, 3, 1>>, <<3, 1, 2>>, <<3, 2, 1>> >>
UnitVec(k) == [i \in 1 .. 3 |-> IF i = k THEN 1 ELSE 0]
\* The tetrahedron of cube c = 0 .. 35 that walks from the cube's low
\* corner to its high corner along the axes in the order perm.
KuhnTet(c, perm) ==
    LET v0 == <<-4 + (c % 4), -3 + ((c \div 4) % 3), -3 + (c \div 12)>>
        v1 == VAdd(v0, UnitVec(perm[1]))
        v2 == VAdd(v1, UnitVec(perm[2]))
        v3 == VAdd(v2, UnitVec(perm[3]))
    IN <<LatticeTag(v0), LatticeTag(v1), LatticeTag(v2), LatticeTag(v3)>>
GradedElements ==
    [i \in 1 .. 217 |->
        IF i = 1 THEN TetRec(1, 2, <<80, 81, 82, 83>>)
        ELSE TetRec(i, 1, KuhnTet((i - 2) \div 6, Perms3[((i - 2) % 6) + 1]))]
GradedInputs ==
    { [elements |-> GradedElements, nodes |-> GradedNodes, materials |-> BaseMedia] }

\* The same block of 216 tetrahedra with a long tetrahedron apart from it:
\* its face ABC passes behind the block, its vertex A lies far in front.
LongPoints == <<<<20, -2, 73>>, <<-6, -8, -5>>, <<-6, 4, -5>>, <<-9, -2, 4>>>>
ShadowNodes ==
    [i \in 1 .. 84 |->
        IF i <= 80 THEN NodeRec(i, LatticePoint(i - 1))
        ELSE NodeRec(i, LongPoints[i - 80])]
ShadowElements ==
    [i \in 1 .. 217 |->
        IF i = 1 THEN TetRec(1, 2, <<81, 82, 83, 84>>)
        ELSE TetRec(i, 1, KuhnTet((i - 2) \div 6, Perms3[((i - 2) % 6) + 1]))]
ShadowInputs ==
    { [elements |-> ShadowElements, nodes |-> ShadowNodes, materials |-> BaseMedia] }

----------------------------------------------------------------------------
(* EGS_Mesh::initializeElements                                           *)

n_max == 2147483647

\* A faulty variant: a map keyed by position, which no duplicate tag shrinks.
node_map_by_position(ns) == [t \in DOMAIN ns |-> t - 1]

\* std::unordered_map::insert keeps the first record inserted under a key.
node_map(ns) ==
    [t \in {ns[i].tag : i \in DOMAIN ns} |->
        SetMin({i \in DOMAIN ns : ns[i].tag = t}) - 1]

find_node_throws(ns, node_tag) == node_tag \notin DOMAIN node_map(ns)
\* A faulty variant: takes the tags to number the nodes from 1 in order.
find_node_sequential(ns, node_tag) == node_tag - 1
find_node(ns, node_tag) == node_map(ns)[node_tag]

\* A faulty variant: takes the tags to number the media from 1 in order.
medium_offsets_by_tag(ms) == [t \in {ms[i].tag : i \in DOMAIN ms} |-> t - 1]

\* insert leaves the first record inserted under a key; a second insert
\* under the same key throws (see initializeElementsError).
medium_offsets(ms) ==
    [t \in {ms[i].tag : i \in DOMAIN ms} |->
        SetMin({i \in DOMAIN ms : ms[i].tag = t}) - 1]

\* The first exception initializeElements throws, "none" when it returns.
initializeElementsError(es, ns, ms) ==
    IF Len(es) >= n_max THEN "maximum number of elements exceeded"
    ELSE IF Len(ns) >= n_max THEN "maximum number of nodes exceeded"
    ELSE IF Cardinality(DOMAIN node_map(ns)) # Len(ns)
        THEN "duplicate nodes in node list"
    ELSE IF \E i \in DOMAIN es : \E t \in {es[i].a, es[i].b, es[i].c, es[i].d} :
                find_node_throws(ns, t)
        THEN "No mesh node with tag"
    ELSE IF Cardinality(DOMAIN medium_offsets(ms)) # Len(ms)
        THEN "duplicate medium tag"
    ELSE IF \E i \in DOMAIN es : es[i].medium_tag \notin DOMAIN medium_offsets(ms)
        THEN "out_of_range"
    ELSE "none"

initializeElements ==
    /\ pc = "constructing"
    /\ LET err == initializeElementsError(in_elements, in_nodes, in_materials)
           es == in_elements
           ns == in_nodes
       IN IF err # "none"
          THEN /\ pc' = "failed"
               /\ thrown' = err
               /\ UNCHANGED meshvars
          ELSE /\ pc' = "elements"
               /\ thrown' = "none"
               /\ nreg' = Len(es)
               /\ nodes' = Vec0([i \in DOMAIN ns |-> <<ns[i].x, ns[i].y, ns[i].z>>])
               /\ elt_tags' = Vec0([i \in DOMAIN es |-> es[i].tag])
               /\ elt_node_indices' = Vec0([i \in DOMAIN es |->
                      Vec0(<<find_node(ns, es[i].a), find_node(ns, es[i].b),
                             find_node(ns, es[i].c), find_node(ns, es[i].d)>>)])
               /\ medium_names' = Vec0([i \in DOMAIN in_materials |->
                      in_materials[i].medium_name])
               /\ medium_indices' = Vec0([i \in DOMAIN es |->
                      medium_offsets(in_materials)[es[i].medium_tag]])
               /\ UNCHANGED <<neighbours, boundary_faces, face_normals,
                              volume_tree, surface_tree>>
    /\ UNCHANGED <<invars, shapevars, call>>

----------------------------------------------------------------------------
(* Dual numbers.  A bound of a bounding box is a node coordinate moved by  *)
(* a multiple of delta = 1e-8 (BoundingBox::expand) and halved some number *)
(* of times (divide8).  It is kept exactly as <<a, b>>, standing for       *)
(* (a + b * delta) / DualScale.  Every a-part met is a multiple of         *)
(* 1 / DualScale and every |b| stays far below 1e8, so that                *)
(* a + b*delta < a' + b'*delta iff a < a', or a = a' and b < b'.           *)
(* eps = 1e-8 (line 60) is the same number as delta.                       *)

DualScale == 2 ^ 8

D(k) == <<k * DualScale, 0>>
eps == <<0, DualScale>>
DAdd(x, y) == <<x[1] + y[1], x[2] + y[2]>>
DSub(x, y) == <<x[1] - y[1], x[2] - y[2]>>
DNeg(x) == <<-x[1], -x[2]>>
DScale(k, x) == <<k * x[1], k * x[2]>>
DLess(x, y) == x[1] < y[1] \/ (x[1] = y[1] /\ x[2] < y[2])
DLeq(x, y) == ~DLess(y, x)
DMin(x, y) == IF DLess(y, x) THEN y ELSE x
DMax(x, y) == IF DLess(x, y) THEN y ELSE x
DAbs(x) == IF DLess(x, <<0, 0>>) THEN DNeg(x) ELSE x
\* Halving is exact or the model stops: no value is ever rounded.
HalfInt(a) == IF a % 2 = 0 THEN a \div 2 ELSE CHOOSE h \in {} : TRUE
DHalf(x) == <<HalfInt(x[1]), HalfInt(x[2])>>
\* Dual vector times integer vector.
DDot(dv, iv) == DAdd(DAdd(DScale(iv[1], dv[1]), DScale(iv[2], dv[2])),
                     DScale(iv[3], dv[3]))

min3(a, b, c) == Min2(Min2(a, b), c)
max3(a, b, c) == Max2(Max2(a, b), c)
dmin3(a, b, c) == DMin(DMin(a, b), c)
dmax3(a, b, c) == DMax(DMax(a, b), c)

\* approx_eq(a, b) with the default e = eps, on dual numbers:
\* |a - b| <= eps * (|a| + |b| + 1).  The right side is a multiple of
\* delta, so the test fails whenever a and b differ in their a-part; when
\* they do not, both sides are divided by delta.
approx_eq(a, b) ==
    LET diff == DAbs(DSub(a, b))
    IN /\ diff[1] = 0
       /\ DLeq(<<diff[2], 0>>, DAdd(DAdd(DAbs(a), DAbs(b)), D(1)))

\* is_zero(v) for an integer vector: approx_eq(0, |v|), and |v| >= 1
\* unless v = 0.
is_zero(v) == v = <<0, 0, 0>>

----------------------------------------------------------------------------
(* EGS_Mesh_Octree::BoundingBox                                            *)

BoundingBox(min_x, max_x, min_y, max_y, min_z, max_z) ==
    [min_x |-> min_x, max_x |-> max_x, min_y |-> min_y, max_y |-> max_y,
     min_z |-> min_z, max_z |-> max_z]

mid_x(bb) == DHalf(DAdd(bb.min_x, bb.max_x))
mid_y(bb) == DHalf(DAdd(bb.min_y, bb.max_y))
mid_z(bb) == DHalf(DAdd(bb.min_z, bb.max_z))

expand(bb, delta) ==
    BoundingBox(DSub(bb.min_x, delta), DAdd(bb.max_x, delta),
                DSub(bb.min_y, delta), DAdd(bb.max_y, delta),
                DSub(bb.min_z, delta), DAdd(bb.max_z, delta))

\* One of the nine category 3 axes separates the triangle from the box.
EdgeAxisSeparates(u, f, v0, v1, v2, ex, ey, ez) ==
    LET a == cross(u, f)
        r == DAdd(DAdd(DScale(Abs(a[1]), ex), DScale(Abs(a[2]), ey)),
                  DScale(Abs(a[3]), ez))
        p0 == DDot(v0, a)
        p1 == DDot(v1, a)
        p2 == DDot(v2, a)
    IN /\ ~is_zero(a)
       /\ DLess(r, DAdd(DMax(DNeg(dmax3(p0, p1, p2)), dmin3(p0, p1, p2)), eps))

intersects_triangle(bb, a, b, c) ==
    IF \/ DLeq(bb.max_x, D(min3(a[1], b[1], c[1])))
       \/ DLeq(bb.max_y, D(min3(a[2], b[2], c[2])))
       \/ DLeq(bb.max_z, D(min3(a[3], b[3], c[3])))
       \/ DLeq(D(max3(a[1], b[1], c[1])), bb.min_x)
       \/ DLeq(D(max3(a[2], b[2], c[2])), bb.min_y)
       \/ DLeq(D(max3(a[3], b[3], c[3])), bb.min_z)
    THEN FALSE
    ELSE
    LET centre == <<mid_x(bb), mid_y(bb), mid_z(bb)>>
        ex == DHalf(DSub(bb.max_x, bb.min_x))
        ey == DHalf(DSub(bb.max_y, bb.min_y))
        ez == DHalf(DSub(bb.max_z, bb.min_z))
        v0 == [i \in 1 .. 3 |-> DSub(D(a[i]), centre[i])]
        v1 == [i \in 1 .. 3 |-> DSub(D(b[i]), centre[i])]
        v2 == [i \in 1 .. 3 |-> DSub(D(c[i]), centre[i])]
        \* v1 - v0, v2 - v1, v0 - v2: the centre cancels
        edge_vecs == <<VSub(b, a), VSub(c, b), VSub(a, c)>>
        unit_vecs == << <<1, 0, 0>>, <<0, 1, 0>>, <<0, 0, 1>> >>
        n == cross(edge_vecs[1], edge_vecs[2])
        r == DAdd(DAdd(DScale(Abs(n[1]), ex), DScale(Abs(n[2]), ey)),
                  DScale(Abs(n[3]), ez))
        s == DSub(DDot(centre, n), D(dot(n, a)))
    IN IF \E i \in 1 .. 3 : \E j \in 1 .. 3 :
             EdgeAxisSeparates(unit_vecs[i], edge_vecs[j], v0, v1, v2, ex, ey, ez)
       THEN FALSE
       ELSE IF \/ DLeq(dmax3(v0[1], v1[1], v2[1]), DNeg(ex))
               \/ DLeq(ex, dmin3(v0[1], v1[1], v2[1]))
               \/ DLeq(dmax3(v0[2], v1[2], v2[2]), DNeg(ey))
               \/ DLeq(ey, dmin3(v0[2], v1[2], v2[2]))
               \/ DLeq(dmax3(v0[3], v1[3], v2[3]), DNeg(ez))
               \/ DLeq(ez, dmin3(v0[3], v1[3], v2[3]))
       THEN FALSE
       ELSE DLeq(DAbs(s), r)

\* tet: the four node positions <<A, B, C, D>> of an element.
intersects_tetrahedron(bb, tet) ==
    \/ intersects_triangle(bb, tet[1], tet[2], tet[3])
    \/ intersects_triangle(bb, tet[1], tet[3], tet[4])
    \/ intersects_triangle(bb, tet[1], tet[2], tet[4])
    \/ intersects_triangle(bb, tet[2], tet[3], tet[4])

\* point: a vector of dual numbers.
contains(bb, point) ==
    /\ DLeq(bb.min_x, point[1]) /\ DLess(point[1], bb.max_x)
    /\ DLeq(bb.min_y, point[2]) /\ DLess(point[2], bb.max_y)
    /\ DLeq(bb.min_z, point[3]) /\ DLess(point[3], bb.max_z)

is_indivisible(bb) ==
    \/ approx_eq(bb.min_x, mid_x(bb))
    \/ approx_eq(bb.max_x, mid_x(bb))
    \/ approx_eq(bb.min_y, mid_y(bb))
    \/ approx_eq(bb.max_y, mid_y(bb))
    \/ approx_eq(bb.min_z, mid_z(bb))
    \/ approx_eq(bb.max_z, mid_z(bb))

\* The eight octants, numbered 0 .. 7.
divide8(bb) ==
    [i \in 0 .. 7 |->
        BoundingBox(IF i % 2 = 0 THEN bb.min_x ELSE mid_x(bb),
                    IF i % 2 = 0 THEN mid_x(bb) ELSE bb.max_x,
                    IF (i \div 2) % 2 = 0 THEN bb.min_y ELSE mid_y(bb),
                    IF (i \div 2) % 2 = 0 THEN mid_y(bb) ELSE bb.max_y,
                    IF i \div 4 = 0 THEN bb.min_z ELSE mid_z(bb),
                    IF i \div 4 = 0 THEN mid_z(bb) ELSE bb.max_z)]

----------------------------------------------------------------------------
(* Accessors of egs_mesh.h, read on the current mesh.                      *)

num_elements == size(elt_node_indices)

\* The positions <<A, B, C, D>> of the nodes of element i.
element_nodes(i) ==
    <<nodes[elt_node_indices[i][0]], nodes[elt_node_indices[i][1]],
      nodes[elt_node_indices[i][2]], nodes[elt_node_indices[i][3]]>>

\* An element offset that is not one of the mesh is refused with an error
\* before any element data is read.
element_nodes_throws(i) == i < 0 \/ i >= size(elt_node_indices)

is_boundary(reg) ==
    \/ boundary_faces[4 * reg] \/ boundary_faces[4 * reg + 1]
    \/ boundary_faces[4 * reg + 2] \/ boundary_faces[4 * reg + 3]

----------------------------------------------------------------------------
(* mesh_neighbours::tetrahedron_neighbours, and initializeNeighbours       *)

NONE == -1

\* The order-independent key of face f of an element: its three node
\* indices, face f being the one opposite node f.
FaceKey(elt, f) == {elt[i] : i \in (0 .. 3) \ {f}}

\* The (element, face) pairs other than (e, f) that have the key of (e, f).
SameFace(elts, e, f) ==
    {ef \in (DOMAIN elts) \X (0 .. 3) :
        /\ ef # <<e, f>>
        /\ FaceKey(elts[ef[1]], ef[2]) = FaceKey(elts[e], f)}

\* A faulty variant: a face shared by any number of elements is accepted.
tetrahedron_neighbours_accepts_all(elts) == FALSE

tetrahedron_neighbours_throws(elts) ==
    \E e \in DOMAIN elts : \E f \in 0 .. 3 : Cardinality(SameFace(elts, e, f)) > 1

tetrahedron_neighbours(elts) ==
    [e \in DOMAIN elts |-> [f \in 0 .. 3 |->
        LET same == SameFace(elts, e, f)
        IN IF same = {} THEN NONE ELSE (CHOOSE ef \in same : TRUE)[1]]]

\* A faulty variant: every face of an element with a boundary face is flagged.
boundary_flags_by_element(nbs) ==
    [k \in 0 .. (4 * size(nbs) - 1) |-> \E f \in 0 .. 3 : nbs[k \div 4][f] = NONE]

\* The flags pushed in the order of the table: one per element and face.
boundary_flags(nbs) ==
    [k \in 0 .. (4 * size(nbs) - 1) |-> nbs[k \div 4][k % 4] = NONE]

initializeNeighbours ==
    /\ pc = "elements"
    /\ IF tetrahedron_neighbours_throws(elt_node_indices)
       THEN /\ pc' = "failed"
            /\ thrown' = "more than two elements share a face"
            /\ UNCHANGED <<neighbours, boundary_faces>>
       ELSE /\ pc' = "neighbours"
            /\ neighbours' = tetrahedron_neighbours(elt_node_indices)
            /\ boundary_faces' = boundary_flags(neighbours')
            /\ UNCHANGED thrown
    /\ UNCHANGED <<nreg, elt_tags, elt_node_indices, nodes, medium_names,
                   medium_indices, face_normals, volume_tree, surface_tree>>
    /\ UNCHANGED <<invars, shapevars, call>>

----------------------------------------------------------------------------
(* Point tests                                                             *)

\* The product of the two triple products is negative; only its sign is
\* computed, the product itself may not fit the model's integers.
point_outside_of_plane(P, A, B, C, Dr) ==
    Sgn(dot(VSub(P, A), cross(VSub(B, A), VSub(C, A))))
        * Sgn(dot(VSub(Dr, A), cross(VSub(B, A), VSub(C, A)))) < 0

\* n: the node positions <<A, B, C, D>> of the element.
insideTet(n, x) ==
    /\ ~point_outside_of_plane(x, n[1], n[2], n[3], n[4])
    /\ ~point_outside_of_plane(x, n[1], n[3], n[4], n[2])
    /\ ~point_outside_of_plane(x, n[1], n[2], n[4], n[3])
    /\ ~point_outside_of_plane(x, n[2], n[3], n[4], n[1])

insideElement(i, x) == insideTet(element_nodes(i), x)

----------------------------------------------------------------------------
(* EGS_Mesh_Octree::Node and EGS_Mesh_Octree.  tets maps an element to its *)
(* node positions (mesh.element_nodes).                                    *)

RECURSIVE Node(_, _, _, _)
Node(elts, bbox, nmax, tets) ==
    IF is_indivisible(bbox) \/ Len(elts) < nmax
    THEN [bbox_ |-> bbox, elts_ |-> elts, children_ |-> EmptyVec]
    ELSE LET bbs == divide8(bbox)
             octants == [i \in 0 .. 7 |->
                 SelectSeq(elts, LAMBDA e : intersects_tetrahedron(bbs[i], tets[e]))]
         IN [bbox_ |-> bbox, elts_ |-> <<>>,
             children_ |-> [i \in 0 .. 7 |-> Node(octants[i], bbs[i], nmax, tets)]]

isLeaf(node) == DOMAIN node.children_ = {}

\* A point whose coordinates are dual numbers over a common positive
\* integer: coordinate i is num[i] / den.
DPoint(num, den) == [num |-> num, den |-> den]
DVec(p) == <<D(p[1]), D(p[2]), D(p[3])>>

\* A faulty variant: a point on a middle plane goes to the lower octant.
findOctant_strict(node, p) ==
    (IF DLess(DScale(p.den, mid_x(node.bbox_)), p.num[1]) THEN 1 ELSE 0)
    + (IF DLess(DScale(p.den, mid_y(node.bbox_)), p.num[2]) THEN 2 ELSE 0)
    + (IF DLess(DScale(p.den, mid_z(node.bbox_)), p.num[3]) THEN 4 ELSE 0)

findOctant(node, p) ==
    (IF DLeq(DScale(p.den, mid_x(node.bbox_)), p.num[1]) THEN 1 ELSE 0)
    + (IF DLeq(DScale(p.den, mid_y(node.bbox_)), p.num[2]) THEN 2 ELSE 0)
    + (IF DLeq(DScale(p.den, mid_z(node.bbox_)), p.num[3]) THEN 4 ELSE 0)

\* The box reached from bbox by levels descents towards the position p,
\* each into the octant findOctant gives.
RECURSIVE DescendBoxes(_, _, _)
DescendBoxes(bbox, p, levels) ==
    IF levels = 0 THEN bbox
    ELSE DescendBoxes(
             divide8(bbox)[findOctant([bbox_ |-> bbox], DPoint(DVec(p), 1))],
             p, levels - 1)

\* A node with the box bbox is asked for the octant of the position p.
Call_findOctant(boxes, ps) ==
    /\ pc = "no mesh"
    /\ call = NoCall
    /\ \E bbox \in boxes, p \in ps :
         call' = [op |-> "findOctant", bbox |-> bbox, p |-> p,
                  inside |-> contains(bbox, DVec(p)),
                  octant |-> findOctant([bbox_ |-> bbox], DPoint(DVec(p), 1)),
                  holders |-> {i \in 0 .. 7 : contains(divide8(bbox)[i], DVec(p))},
                  below |-> DescendBoxes(bbox, p, 2)]
    /\ UNCHANGED <<pc, thrown, invars, shapevars, meshvars>>

\* A faulty variant: the last member of the leaf that holds p.
RECURSIVE Node_isWhere_last(_, _)
Node_isWhere_last(node, p) ==
    IF isLeaf(node)
    THEN LET hits == SelectSeq(node.elts_, LAMBDA e : insideElement(e, p))
         IN IF hits = <<>> THEN -1 ELSE hits[Len(hits)]
    ELSE Node_isWhere_last(node.children_[findOctant(node, DPoint(DVec(p), 1))], p)

\* Node::isWhere; p is an integer position.
RECURSIVE Node_isWhere(_, _)
Node_isWhere(node, p) ==
    IF isLeaf(node)
    THEN LET hits == SelectSeq(node.elts_, LAMBDA e : insideElement(e, p))
         IN IF hits = <<>> THEN -1 ELSE Head(hits)
    ELSE Node_isWhere(node.children_[findOctant(node, DPoint(DVec(p), 1))], p)

tet_min(n, k) == Min2(n[1][k], Min2(n[2][k], Min2(n[3][k], n[4][k])))
tet_max(n, k) == Max2(n[1][k], Max2(n[2][k], Max2(n[3][k], n[4][k])))

\* The union of the members' boxes (the loop over elts of the constructor).
g_bounds(elts, tets) ==
    LET es == Range(elts)
        lo(k) == SetMin({tet_min(tets[e], k) : e \in es})
        hi(k) == -SetMin({-tet_max(tets[e], k) : e \in es})
    IN BoundingBox(D(lo(1)), D(hi(1)), D(lo(2)), D(hi(2)), D(lo(3)), D(hi(3)))

\* The octree pointers of a mesh hold nothing until initializeOctrees.
NullTree == [null |-> TRUE]

EGS_Mesh_Octree_throws(elts) == elts = <<>> \/ Len(elts) > n_max

EGS_Mesh_Octree(elts, nmax, tets) ==
    [root_ |-> Node(elts, expand(g_bounds(elts, tets), eps), nmax, tets)]

Octree_isWhere(tree, p) ==
    IF ~contains(tree.root_.bbox_, DVec(p)) THEN -1
    ELSE Node_isWhere(tree.root_, p)

----------------------------------------------------------------------------
(* EGS_Mesh::initializeOctrees                                              *)

n_vol == 200
n_surf == 100

\* The elements 0 .. n-1 in order, as a list.
AllElts == [i \in 1 .. num_elements |-> i - 1]

initializeOctrees ==
    /\ pc = "neighbours"
    /\ LET elts == AllElts
           boundary_elts == SelectSeq(elts, LAMBDA i : is_boundary(i))
           tets == [i \in DOMAIN elt_node_indices |-> element_nodes(i)]
       IN IF EGS_Mesh_Octree_throws(elts)
          THEN /\ pc' = "failed"
               /\ thrown' = "EGS_Mesh_Octree: empty elements vector"
               /\ UNCHANGED <<volume_tree, surface_tree>>
          ELSE IF EGS_Mesh_Octree_throws(boundary_elts)
          THEN /\ pc' = "failed"
               /\ thrown' = "EGS_Mesh_Octree: empty elements vector"
               /\ UNCHANGED <<volume_tree, surface_tree>>
          ELSE /\ pc' = "octrees"
               /\ volume_tree' = EGS_Mesh_Octree(elts, n_vol, tets)
               /\ surface_tree' = EGS_Mesh_Octree(boundary_elts, n_surf, tets)
               /\ UNCHANGED thrown
    /\ UNCHANGED <<nreg, elt_tags, elt_node_indices, nodes, medium_names,
                   medium_indices, neighbours, boundary_faces, face_normals>>
    /\ UNCHANGED <<invars, shapevars, call>>

----------------------------------------------------------------------------
(* The Node constructor, one node at a time.  The constructor makes its    *)
(* node a leaf or divides its box and then constructs the eight children   *)
(* in order, each wholly before the next: the nodes still to be made are   *)
(* kept as a stack, pending, of member list and box.  made counts the      *)
(* nodes made so far that were divided, leaves the ones made leaves, and   *)
(* full holds the boxes of the leaves with n_max members or more.          *)

\* The constructor is entered for the tree of the boundary elements on one
\* of the boxes and the elements that meet it.
Node_begin(boxes, nmax) ==
    /\ pc = "neighbours"
    /\ call = NoCall
    /\ \E bbox \in boxes :
         LET tets == [i \in DOMAIN elt_node_indices |-> element_nodes(i)]
             elts == SelectSeq(AllElts,
                         LAMBDA e : /\ is_boundary(e)
                                    /\ intersects_tetrahedron(bbox, tets[e]))
         IN call' = [op |-> "Node", n_max |-> nmax,
                     root |-> [elts |-> elts, bbox |-> bbox],
                     pending |-> <<[elts |-> elts, bbox |-> bbox]>>,
                     divided |-> 0, leaves |-> 0, full |-> {}]
    /\ UNCHANGED <<pc, thrown, invars, shapevars, meshvars>>

\* A faulty variant: a node that is divided gets four children.
Node_step_four_children ==
    /\ pc = "neighbours"
    /\ call.op = "Node"
    /\ call.pending # <<>>
    /\ LET top == Head(call.pending)
           bbs == divide8(top.bbox)
       IN IF is_indivisible(top.bbox) \/ Len(top.elts) < call.n_max
          THEN call' = [call EXCEPT !.pending = Tail(@), !.leaves = @ + 1]
          ELSE call' = [call EXCEPT
                  !.pending = [i \in 1 .. 4 |-> [elts |-> <<>>, bbox |-> bbs[i - 1]]]
                              \o Tail(@),
                  !.divided = @ + 1]
    /\ UNCHANGED <<pc, thrown, invars, shapevars, meshvars>>

\* The node on top of the stack is made.
Node_step ==
    /\ pc = "neighbours"
    /\ call.op = "Node"
    /\ call.pending # <<>>
    /\ LET top == Head(call.pending)
           tets == [i \in DOMAIN elt_node_indices |-> element_nodes(i)]
           bbs == divide8(top.bbox)
           octants == [i \in 0 .. 7 |->
               SelectSeq(top.elts,
                         LAMBDA e : intersects_tetrahedron(bbs[i], tets[e]))]
       IN IF is_indivisible(top.bbox) \/ Len(top.elts) < call.n_max
          THEN call' = [call EXCEPT
                  !.pending = Tail(@),
                  !.leaves = @ + 1,
                  !.full = IF Len(top.elts) < call.n_max THEN @
                           ELSE @ \cup {top.bbox}]
          ELSE call' = [call EXCEPT
                  !.pending = [i \in 1 .. 8 |->
                                  [elts |-> octants[i - 1], bbox |-> bbs[i - 1]]]
                              \o Tail(@),
                  !.divided = @ + 1]
    /\ UNCHANGED <<pc, thrown, invars, shapevars, meshvars>>

----------------------------------------------------------------------------
(* EGS_Mesh::initializeNormals.  A unit vector is kept as the integer      *)
(* vector it is parallel to; normalising the zero vector divides by zero   *)
(* and leaves NaN components, on which every comparison is false.          *)

\* The shortest integer vector along v.
Prim(v) ==
    LET g == Gcd(Abs(v[1]), Gcd(Abs(v[2]), Abs(v[3])))
    IN IF g = 0 THEN v ELSE <<v[1] \div g, v[2] \div g, v[3] \div g>>

normalize(v) == [dir |-> Prim(v), nan |-> (v = <<0, 0, 0>>)]
UNeg(n) == [dir |-> VNeg(n.dir), nan |-> n.nan]

\* A faulty variant: the cross product is kept as it comes.
get_normal_unflipped(a, b, c, d) == normalize(cross(VSub(b, a), VSub(c, a)))

get_normal(a, b, c, d) ==
    LET normal == normalize(cross(VSub(b, a), VSub(c, a)))
    IN IF ~normal.nan /\ dot(normal.dir, VSub(d, a)) < 0
       THEN UNeg(normal) ELSE normal

\* A faulty variant: the normals are derived before the octrees are built.
initializeNormals_before_octrees ==
    /\ pc = "neighbours"
    /\ face_normals = EmptyVec
    /\ face_normals' =
          [i \in 0 .. (num_elements - 1) |->
              LET n == element_nodes(i)
              IN Vec0(<<get_normal(n[2], n[3], n[4], n[1]),
                        get_normal(n[1], n[3], n[4], n[2]),
                        get_normal(n[1], n[2], n[4], n[3]),
                        get_normal(n[1], n[2], n[3], n[4])>>)]
    /\ UNCHANGED <<nreg, elt_tags, elt_node_indices, nodes, medium_names,
                   medium_indices, neighbours, boundary_faces,
                   volume_tree, surface_tree>>
    /\ UNCHANGED <<pc, thrown, invars, shapevars, call>>

initializeNormals ==
    /\ pc = "octrees"
    /\ pc' = "ready"
    /\ face_normals' =
          [i \in 0 .. (num_elements - 1) |->
              LET n == element_nodes(i)
              IN Vec0(<<get_normal(n[2], n[3], n[4], n[1]),
                        get_normal(n[1], n[3], n[4], n[2]),
                        get_normal(n[1], n[2], n[4], n[3]),
                        get_normal(n[1], n[2], n[3], n[4])>>)]
    /\ UNCHANGED <<nreg, elt_tags, elt_node_indices, nodes, medium_names,
                   medium_indices, neighbours, boundary_faces,
                   volume_tree, surface_tree>>
    /\ UNCHANGED <<thrown, invars, shapevars, call>>

----------------------------------------------------------------------------
(* EGS_Mesh::isWhere                                                        *)

isWhere(x) == Octree_isWhere(volume_tree, x)

\* A call of isWhere on a position of xs.
Call_isWhere(xs) ==
    /\ pc = "ready"
    /\ call = NoCall
    /\ \E x \in xs : call' = [op |-> "isWhere", x |-> x, ret |-> isWhere(x)]
    /\ UNCHANGED <<pc, thrown, invars, shapevars, meshvars>>

----------------------------------------------------------------------------
(* Distances (EGS_Float).  <<n, d>> with d > 0 is n / d.  The two huge     *)
(* values the code uses as "nothing yet" are <<1, 0>> (1e30) and <<2, 0>>  *)
(* (DBL_MAX); every distance the model computes is far below both.         *)

veryFar == <<1, 0>>
DBL_MAX == <<2, 0>>
Zero == <<0, 1>>
Rank(x) == IF x[2] = 0 THEN x[1] ELSE 0
\* n / d with d # 0, in lowest terms with a positive denominator.
Rat(n, d) ==
    LET g == Gcd(Abs(n), Abs(d))
    IN <<Sgn(d) * (n \div g), Abs(d) \div g>>
RLess(x, y) ==
    \/ Rank(x) < Rank(y)
    \/ Rank(x) = 0 /\ Rank(y) = 0 /\ x[1] * y[2] < y[1] * x[2]
RLeq(x, y) == ~RLess(y, x)

\* A unit direction: the vector v / den, with |v| = den.
Dir(v, den) == [v |-> v, den |-> den]

----------------------------------------------------------------------------
(* Ray-triangle intersection.  With integer positions and a direction      *)
(* v / den, det = detn / den for an integer detn, so |det| < 1e-10 only    *)
(* when detn = 0; likewise dot(v_norm, face_norm) is an integer over       *)
(* den * |face_norm| and exceeds -1e-10 only when the integer is >= 0.     *)
(* The result is [hit, dist]; dist is meaningful only after a hit.         *)

NoHit == [hit |-> FALSE, dist |-> Zero]

MollerTrumbore(p, v_norm, a, b, c) ==
    LET ab == VSub(b, a)
        ac == VSub(c, a)
        pvec == cross(v_norm.v, ac)
        detn == dot(ab, pvec)
        tvec == VSub(p, a)
        un == dot(tvec, pvec) * Sgn(detn)
        qvec == cross(tvec, ab)
        vn == dot(v_norm.v, qvec) * Sgn(detn)
        dist == Rat(dot(ac, qvec) * v_norm.den, detn)
    IN IF detn = 0 THEN NoHit
       ELSE IF un < 0 \/ un > Abs(detn) THEN NoHit
       ELSE IF vn < 0 \/ un + vn > Abs(detn) THEN NoHit
       ELSE IF dist[1] < 0 THEN NoHit
       ELSE [hit |-> TRUE, dist |-> dist]

exterior_triangle_ray_intersection(p, v_norm, a, b, c) ==
    MollerTrumbore(p, v_norm, a, b, c)

\* A faulty variant: the direction is not compared with the face normal.
interior_intersection_any_direction(p, v_norm, face_norm, a, b, c) ==
    IF ~face_norm.nan /\ dot(face_norm.dir, VSub(p, a)) < 0 THEN NoHit
    ELSE MollerTrumbore(p, v_norm, a, b, c)

interior_triangle_ray_intersection(p, v_norm, face_norm, a, b, c) ==
    IF ~face_norm.nan /\ dot(v_norm.v, face_norm.dir) >= 0 THEN NoHit
    ELSE IF ~face_norm.nan /\ dot(face_norm.dir, VSub(p, a)) < 0 THEN NoHit
    ELSE MollerTrumbore(p, v_norm, a, b, c)

----------------------------------------------------------------------------
(* EGS_Mesh::medium, update_medium, update_normal                          *)

\* std::vector::at throws std::out_of_range for an index that is not one
\* of the vector: the int ireg is converted to the unsigned size_type.
medium_throws(ireg) == ireg < 0 \/ ireg >= size(medium_indices)
medium(ireg) == medium_indices[ireg]

\* The value left in *newmed.
update_medium(newreg, newmed) == IF newreg = -1 THEN -1 ELSE medium(newreg)

\* The value left in *normal: the face normal turned against the ray.
update_normal(face_normal, u_norm, normal) ==
    IF ~face_normal.nan /\ dot(face_normal.dir, u_norm.v) > 0
    THEN UNeg(face_normal) ELSE face_normal

----------------------------------------------------------------------------
(* EGS_Mesh::howfar_interior and the lost particle                         *)

\* The nodes of face i of an element with nodes n = <<A, B, C, D>>.
face_nodes(n, i) ==
    CASE i = 0 -> <<n[2], n[3], n[4]>>
      [] i = 1 -> <<n[1], n[3], n[4]>>
      [] i = 2 -> <<n[1], n[2], n[4]>>
      [] i = 3 -> <<n[1], n[2], n[3]>>

\* The test of face i in the loop of howfar_interior: [hit, dist].
InteriorFaceTest(ireg, x, u, i) ==
    LET fn == face_nodes(element_nodes(ireg), i)
        nrm == face_normals[ireg][i]
    IN IF nrm.nan \/ dot(nrm.dir, VSub(x, fn[1])) < 0 THEN NoHit
       ELSE interior_triangle_ray_intersection(x, u, nrm, fn[1], fn[2], fn[3])

\* A faulty variant: the neighbours are not looked at.
no_inside_neighbour(ireg, x) == -1

\* A faulty variant: the first neighbour there is, wherever x is.
first_neighbour_unchecked(ireg, x) ==
    LET nbs == {i \in 0 .. 3 : neighbours[ireg][i] # -1}
    IN IF nbs = {} THEN -1 ELSE neighbours[ireg][SetMin(nbs)]

\* The loop over the neighbours of ireg: the first one that holds x, or -1.
first_inside_neighbour(ireg, x) ==
    LET inside_nbs == {i \in 0 .. 3 :
            /\ neighbours[ireg][i] # -1
            /\ insideElement(neighbours[ireg][i], x)}
    IN IF inside_nbs = {} THEN -1 ELSE neighbours[ireg][SetMin(inside_nbs)]

\* A faulty variant: the region found is returned whatever it is.
find_lost_particle_no_fatal(ireg, x, u) ==
    LET neighbour == first_inside_neighbour(ireg, x)
    IN [ret |-> IF neighbour # -1 THEN neighbour ELSE isWhere(x),
        fatal |-> FALSE]

\* [ret, fatal]: the region returned, or fatal when egsFatal ends the run.
howfar_interior_find_lost_particle(ireg, x, u) ==
    LET neighbour == first_inside_neighbour(ireg, x)
        newreg == isWhere(x)
    IN IF neighbour # -1 THEN [ret |-> neighbour, fatal |-> FALSE]
       ELSE IF newreg = ireg THEN [ret |-> ireg, fatal |-> TRUE]
       ELSE [ret |-> newreg, fatal |-> FALSE]

\* A faulty variant: the face after the first face hit at no more than t.
next_face_within(ireg, x, u, t) ==
    LET near == {i \in 0 .. 3 :
            LET test == InteriorFaceTest(ireg, x, u, i)
            IN test.hit /\ RLeq(test.dist, t)}
    IN IF near = {} THEN -1 ELSE (SetMin(near) + 1) % 4

\* A faulty variant: the first face hit, however far.
first_face_any_distance(ireg, x, u, t) ==
    LET hit == {i \in 0 .. 3 : InteriorFaceTest(ireg, x, u, i).hit}
    IN IF hit = {} THEN -1 ELSE SetMin(hit)

\* The loop over the faces: the first face hit at no more than t, or -1.
first_face_within(ireg, x, u, t) ==
    LET near == {i \in 0 .. 3 :
            LET test == InteriorFaceTest(ireg, x, u, i)
            IN test.hit /\ RLeq(test.dist, t)}
    IN IF near = {} THEN -1 ELSE SetMin(near)

\* A faulty variant: no snapping.
no_snap_to_plane(dist) == dist

\* A point within the thick plane is at distance exactly 0.
snap_to_plane(dist) ==
    IF RLeq(dist, halfBoundaryTolerance) THEN Zero ELSE dist

\* A faulty variant: a particle is taken for lost whatever the faces say.
is_lost_always(ireg, x, u) == TRUE

is_lost(ireg, x, u) == \A i \in 0 .. 3 : ~InteriorFaceTest(ireg, x, u, i).hit

\* The result of howfar_interior: what it returns and what it leaves in
\* t, *newmed and *normal; path tells how the call ended.
howfar_interior(ireg, x, u, t, newmed, normal) ==
    LET i == first_face_within(ireg, x, u, t)
        dist == snap_to_plane(InteriorFaceTest(ireg, x, u, i).dist)
        newreg == neighbours[ireg][i]
        lost == howfar_interior_find_lost_particle(ireg, x, u)
    IN IF i # -1
       THEN [ret |-> newreg, t |-> dist,
             newmed |-> update_medium(newreg, newmed),
             normal |-> update_normal(face_normals[ireg][i], u, normal),
             path |-> "face"]
       ELSE IF ~is_lost(ireg, x, u)
       THEN [ret |-> ireg, t |-> t, newmed |-> newmed, normal |-> normal,
             path |-> "too far"]
       ELSE IF lost.fatal
       THEN [ret |-> ireg, t |-> Zero, newmed |-> newmed, normal |-> normal,
             path |-> "fatal"]
       ELSE [ret |-> lost.ret, t |-> Zero,
             newmed |-> update_medium(lost.ret, newmed), normal |-> normal,
             path |-> "lost"]

----------------------------------------------------------------------------
(* BoundingBox::ray_intersection.  A ray parameter is a dual number over a *)
(* positive integer, <<a, b, d>> = (a + b * delta) / (DualScale * d);      *)
(* d = 0 stands for DBL_MAX.                                               *)

DRLess(x, y) ==
    IF x[3] = 0 THEN FALSE
    ELSE IF y[3] = 0 THEN TRUE
    ELSE DLess(DScale(y[3], <<x[1], x[2]>>), DScale(x[3], <<y[1], y[2]>>))
DRMin(x, y) == IF DRLess(y, x) THEN y ELSE x
DRMax(x, y) == IF DRLess(x, y) THEN y ELSE x
\* num / d for a dual num and an integer d # 0.
DRat(num, d) == IF d < 0 THEN <<-num[1], -num[2], -d>> ELSE <<num[1], num[2], d>>
\* x > r for a ray parameter x and a distance r.
DRGreater(x, r) ==
    IF Rank(r) > 0 THEN FALSE
    ELSE DLess(<<r[1] * DualScale * x[3], 0>>, DScale(r[2], <<x[1], x[2]>>))

\* One pass of the loop over the three slabs.
Slab(bb, p, v, i, st) ==
    LET mins == <<bb.min_x, bb.min_y, bb.min_z>>
        maxs == <<bb.max_x, bb.max_y, bb.max_z>>
        ta == DRat(DScale(v.den, DSub(mins[i], D(p[i]))), v.v[i])
        tb == DRat(DScale(v.den, DSub(maxs[i], D(p[i]))), v.v[i])
        tmin == DRMax(st.tmin, DRMin(ta, tb))
        tmax == DRMin(st.tmax, DRMax(ta, tb))
    IN IF ~st.hit THEN st
       ELSE IF v.v[i] = 0
       THEN IF DLess(D(p[i]), mins[i]) \/ DLess(maxs[i], D(p[i]))
            THEN [st EXCEPT !.hit = FALSE] ELSE st
       ELSE IF DRLess(tmax, tmin) THEN [st EXCEPT !.hit = FALSE]
       ELSE [hit |-> TRUE, tmin |-> tmin, tmax |-> tmax]

\* [hit, dist, q]: q = p + v * dist, meaningful only after a hit.
ray_intersection(bb, p, v) ==
    LET st0 == [hit |-> TRUE, tmin |-> <<0, 0, 1>>, tmax |-> <<1, 0, 0>>]
        \* after the loop has left st
        Result(st) ==
            LET den == v.den * st.tmin[3]
                qi(i) == DAdd(DScale(den, D(p[i])),
                              DScale(v.v[i], <<st.tmin[1], st.tmin[2]>>))
            IN [hit |-> st.hit, dist |-> st.tmin,
                q |-> DPoint(<<qi(1), qi(2), qi(3)>>, den)]
    IN Result(Slab(bb, p, v, 3, Slab(bb, p, v, 2, Slab(bb, p, v, 1, st0))))

----------------------------------------------------------------------------
(* EGS_Mesh::closest_boundary_face: [dist, face_index]                     *)

closest_boundary_face(ireg, x, u) ==
    LET n == element_nodes(ireg)
        \* the arguments A, B, C, D of check_face_intersection for a face
        args == [face \in 0 .. 3 |->
                    CASE face = 0 -> <<n[2], n[3], n[4], n[1]>>
                      [] face = 1 -> <<n[1], n[3], n[4], n[2]>>
                      [] face = 2 -> <<n[1], n[2], n[4], n[3]>>
                      [] face = 3 -> <<n[1], n[2], n[3], n[4]>>]
        \* the loop over the faces, given the ray test of each face
        Nearest(test) ==
            LET ok == {face \in 0 .. 3 :
                        /\ boundary_faces[4 * ireg + face]
                        /\ point_outside_of_plane(x, args[face][1],
                               args[face][2], args[face][3], args[face][4])
                        /\ ~face_normals[ireg][face].nan
                        /\ dot(face_normals[ireg][face].dir, u.v) > 0
                        /\ test[face].hit}
                \* dist < min_dist replaces the face only when strictly nearer
                best == {face \in ok : \A g \in ok :
                            /\ ~RLess(test[g].dist, test[face].dist)
                            /\ (g < face => RLess(test[face].dist, test[g].dist))}
            IN IF ok = {} THEN [dist |-> DBL_MAX, face_index |-> -1]
               ELSE [dist |-> test[SetMin(best)].dist,
                     face_index |-> SetMin(best)]
    IN Nearest([face \in 0 .. 3 |->
                   exterior_triangle_ray_intersection(x, u, args[face][1],
                       args[face][2], args[face][3])])

----------------------------------------------------------------------------
(* EGS_Mesh_Octree: howfar_exterior.  Each result is [ret, t]: the element *)
(* returned and the value left in the out parameter t.                     *)

\* The other octants the ray meets, ordered by (distance, octant).
findOtherIntersectedOctants(node, p, v, exclude_octant) ==
    LET r == [i \in 0 .. 7 |-> ray_intersection(node.children_[i].bbox_, p, v)]
        met == {i \in 0 .. 7 : i # exclude_octant /\ r[i].hit}
        Before(j, i) == \/ DRLess(r[j].dist, r[i].dist)
                        \/ ~DRLess(r[i].dist, r[j].dist) /\ j < i
    IN [k \in 1 .. Cardinality(met) |->
           CHOOSE i \in met : Cardinality({j \in met : Before(j, i)}) = k - 1]

\* The loop of a leaf over its members.
LeafSearch(node, p, v) ==
    LET \* the loop over the members, given the distance found for each
        Nearest(hit) ==
            LET ok == {k \in 1 .. Len(node.elts_) : RLess(hit[k], DBL_MAX)}
                best == {k \in ok : \A g \in ok :
                            /\ ~RLess(hit[g], hit[k])
                            /\ (g < k => RLess(hit[k], hit[g]))}
            IN IF ok = {} THEN [ret |-> -1, t |-> DBL_MAX]
               ELSE [ret |-> node.elts_[SetMin(best)], t |-> hit[SetMin(best)]]
    IN Nearest([k \in 1 .. Len(node.elts_) |->
                   IF is_boundary(node.elts_[k])
                   THEN closest_boundary_face(node.elts_[k], p, v).dist
                   ELSE DBL_MAX])

RECURSIVE Node_howfar_exterior(_, _, _, _)
RECURSIVE VisitOctants(_, _, _, _, _)
\* The loop over the other octants, in order, until one returns an element.
VisitOctants(node, os, p, v, t) ==
    IF os = <<>> THEN [ret |-> -1, t |-> t]
    ELSE LET r == Node_howfar_exterior(node.children_[Head(os)], p, v, t)
         IN IF r.ret # -1 THEN r
            ELSE VisitOctants(node, Tail(os), p, v, r.t)

Node_howfar_exterior(node, p, v, t) ==
    IF isLeaf(node) THEN LeafSearch(node, p, v)
    ELSE LET \* after the most likely octant has returned first
             Others(octant, first) ==
                 IF first.ret # -1 THEN first
                 ELSE VisitOctants(node,
                          findOtherIntersectedOctants(node, p, v, octant),
                          p, v, first.t)
             \* after the box of the node was hit in r.q
             Descend(r, octant) ==
                 IF ~r.hit THEN [ret |-> -1, t |-> t]
                 ELSE Others(octant,
                          Node_howfar_exterior(node.children_[octant], p, v, t))
             Hit(r) == Descend(r, findOctant(node, r.q))
         IN Hit(ray_intersection(node.bbox_, p, v))

Octree_howfar_exterior(tree, p, v, max_dist, t) ==
    LET r == ray_intersection(tree.root_.bbox_, p, v)
    IN IF ~r.hit \/ DRGreater(r.dist, max_dist) THEN [ret |-> -1, t |-> t]
       ELSE Node_howfar_exterior(tree.root_, p, v, t)

----------------------------------------------------------------------------
(* EGS_Mesh::howfar_exterior and EGS_Mesh::howfar                          *)

\* A faulty variant: the cross product as it comes, not turned.
exterior_normal_unturned(min_reg, face_index, u) ==
    LET n == element_nodes(min_reg)
    IN CASE face_index = 0 -> normalize(cross(VSub(n[3], n[2]), VSub(n[4], n[2])))
         [] face_index = 1 -> normalize(cross(VSub(n[3], n[1]), VSub(n[4], n[1])))
         [] face_index = 2 -> normalize(cross(VSub(n[2], n[1]), VSub(n[4], n[1])))
         [] face_index = 3 -> normalize(cross(VSub(n[2], n[1]), VSub(n[3], n[1])))

\* The normal reported for a hit on face face_index of min_reg: the cross
\* product of two edges of the face, turned against the ray, normalised.
exterior_normal(min_reg, face_index, u) ==
    LET n == element_nodes(min_reg)
        tmp_normal ==
            CASE face_index = 0 -> cross(VSub(n[3], n[2]), VSub(n[4], n[2]))
              [] face_index = 1 -> cross(VSub(n[3], n[1]), VSub(n[4], n[1]))
              [] face_index = 2 -> cross(VSub(n[2], n[1]), VSub(n[4], n[1]))
              [] face_index = 3 -> cross(VSub(n[2], n[1]), VSub(n[3], n[1]))
    IN IF dot(tmp_normal, u.v) > 0 THEN normalize(VNeg(tmp_normal))
       ELSE normalize(tmp_normal)

\* A faulty variant: t and *newmed are written before the hit is accepted.
howfar_exterior_early_write(ireg, x, u, t, newmed, normal) ==
    LET r == Octree_howfar_exterior(surface_tree, x, u, t, veryFar)
        intersection == closest_boundary_face(r.ret, x, u)
    IN IF r.ret = -1
       THEN [ret |-> -1, t |-> t, newmed |-> newmed, normal |-> normal,
             path |-> "no hit"]
       ELSE IF RLess(t, r.t)
       THEN [ret |-> -1, t |-> r.t, newmed |-> medium(r.ret),
             normal |-> normal, path |-> "no hit"]
       ELSE [ret |-> r.ret, t |-> r.t, newmed |-> medium(r.ret),
             normal |-> exterior_normal(r.ret, intersection.face_index, u),
             path |-> "hit"]

howfar_exterior(ireg, x, u, t, newmed, normal) ==
    LET \* after the surface tree has returned r
        Found(r) ==
            LET min_dist == r.t
                min_reg == r.ret
                intersection == closest_boundary_face(min_reg, x, u)
            IN IF RLess(t, min_dist) \/ min_reg = -1
               THEN [ret |-> -1, t |-> t, newmed |-> newmed,
                     normal |-> normal, path |-> "no hit"]
               ELSE IF intersection.face_index \notin 0 .. 3
               THEN [ret |-> -1, t |-> min_dist, newmed |-> medium(min_reg),
                     normal |-> normal, path |-> "bad intersection"]
               ELSE [ret |-> min_reg, t |-> min_dist,
                     newmed |-> medium(min_reg),
                     normal |-> exterior_normal(min_reg,
                                    intersection.face_index, u),
                     path |-> "hit"]
    IN Found(Octree_howfar_exterior(surface_tree, x, u, t, veryFar))

\* howfar makes no check of ireg; howfar_interior starts by asking for
\* the nodes of the element ireg.
howfar_throws(ireg) == ireg >= 0 /\ element_nodes_throws(ireg)

howfar(ireg, x, u, t, newmed, normal) ==
    IF ireg < 0 THEN howfar_exterior(ireg, x, u, t, newmed, normal)
    ELSE howfar_interior(ireg, x, u, t, newmed, normal)

\* A call of howfar on a region of iregs, a position of xs, a direction of
\* us and a step of ts.  egsFatal ends the process: the call does not
\* return and nothing else happens afterwards.
Call_howfar(iregs, xs, us, ts, newmed, normal) ==
    /\ pc = "ready"
    /\ call = NoCall
    /\ \E ireg \in iregs, x \in xs, u \in us, t \in ts :
       \E r \in {IF howfar_throws(ireg) THEN [path |-> "out of range"]
                ELSE howfar(ireg, x, u, t, newmed, normal)} :
         LET args == [ireg |-> ireg, x |-> x, u |-> u, t |-> t,
                      newmed |-> newmed, normal |-> normal]
         IN IF r.path = "fatal"
            THEN /\ pc' = "fatal"
                 /\ call' = [op |-> "howfar", args |-> args, returned |-> FALSE]
            ELSE IF r.path \in {"bad intersection", "out of range"}
            THEN /\ pc' = pc
                 /\ call' = [op |-> "howfar", args |-> args, returned |-> FALSE]
            ELSE /\ pc' = pc
                 /\ call' = [op |-> "howfar", args |-> args, returned |-> TRUE,
                             ret |-> r.ret, t |-> r.t, newmed |-> r.newmed,
                             normal |-> r.normal]
    /\ UNCHANGED <<thrown, invars, shapevars, meshvars>>

----------------------------------------------------------------------------
(* Closest points.  A point with rational coordinates is num / den for an  *)
(* integer vector num and an integer den > 0, in lowest terms.             *)

QPoint(num, den) ==
    LET g == Gcd(Gcd(Abs(num[1]), Abs(num[2])), Gcd(Abs(num[3]), Abs(den)))
        k == Sgn(den) * g
    IN [num |-> <<num[1] \div k, num[2] \div k, num[3] \div k>>,
        den |-> den \div k]

\* |q - P|^2 for a rational point q and an integer point P.
distance2(q, P) ==
    Rat(length2(VSub(q.num, VScale(q.den, P))), q.den * q.den)

closest_point_triangle(P, A, B, C) ==
    LET ab == VSub(B, A)
        ac == VSub(C, A)
        ao == VSub(P, A)
        d1 == dot(ab, ao)
        d2 == dot(ac, ao)
        bo == VSub(P, B)
        d3 == dot(ab, bo)
        d4 == dot(ac, bo)
        vc == d1 * d4 - d3 * d2
        co == VSub(P, C)
        d5 == dot(ab, co)
        d6 == dot(ac, co)
        vb == d5 * d2 - d1 * d6
        va == d3 * d6 - d5 * d4
    IN IF d1 <= 0 /\ d2 <= 0 THEN QPoint(A, 1)
       ELSE IF d3 >= 0 /\ d4 <= d3 THEN QPoint(B, 1)
       ELSE IF vc <= 0 /\ d1 >= 0 /\ d3 <= 0
       THEN QPoint(VAdd(VScale(d1 - d3, A), VScale(d1, ab)), d1 - d3)
       ELSE IF d6 >= 0 /\ d5 <= d6 THEN QPoint(C, 1)
       ELSE IF vb <= 0 /\ d2 >= 0 /\ d6 <= 0
       THEN QPoint(VAdd(VScale(d2 - d6, A), VScale(d2, ac)), d2 - d6)
       ELSE IF va <= 0 /\ d4 - d3 >= 0 /\ d5 - d6 >= 0
       THEN QPoint(VAdd(VScale((d4 - d3) + (d5 - d6), B),
                        VScale(d4 - d3, VSub(C, B))),
                   (d4 - d3) + (d5 - d6))
       ELSE LET g == Gcd(Gcd(Abs(va), Abs(vb)), Abs(vc))
                sum == (va + vb + vc) \div g
            IN QPoint(VAdd(VScale(sum, A),
                           VAdd(VScale(vb \div g, ab), VScale(vc \div g, ac))),
                      sum)

----------------------------------------------------------------------------
(* EGS_Float arithmetic.  A float <<m, e>> is m * 2^e with m odd, or       *)
(* <<0, 0>>; its significand has at most FloatBits bits and every          *)
(* operation rounds its exact result to the nearest such number, ties to   *)
(* even.  The exponent is not limited: nothing here overflows or           *)
(* underflows.  FloatBits stands for the 53 bits of a double.              *)

FloatBits == 8

RECURSIVE BitLen(_)
BitLen(n) == IF n = 0 THEN 0 ELSE 1 + BitLen(n \div 2)

RECURSIVE Strip(_, _)
Strip(m, e) ==
    IF m = 0 THEN <<0, 0>>
    ELSE IF m % 2 = 0 THEN Strip(m \div 2, e + 1)
    ELSE <<m, e>>

\* a / 2^k for a >= 0 and k > 0, to the nearest integer, ties to even.
RoundShift(a, k) ==
    LET q == a \div (2 ^ k)
        r == a % (2 ^ k)
        half == 2 ^ (k - 1)
    IN IF r > half \/ (r = half /\ q % 2 = 1) THEN q + 1 ELSE q

\* The float nearest to m * 2^e.
Fl(m, e) ==
    LET k == BitLen(Abs(m)) - FloatBits
    IN IF k <= 0 THEN Strip(m, e)
       ELSE Strip(Sgn(m) * RoundShift(Abs(m), k), e + k)

\* One past the exponent of the leading bit.
FTop(a) == a[2] + BitLen(Abs(a[1]))

FNeg(a) == <<-a[1], a[2]>>

FAdd(a, b) ==
    IF a[1] = 0 THEN b
    ELSE IF b[1] = 0 THEN a
    \* an operand below a quarter of the last place of the other is lost
    ELSE IF FTop(a) - FTop(b) > FloatBits + 1 THEN a
    ELSE IF FTop(b) - FTop(a) > FloatBits + 1 THEN b
    ELSE LET e == IF a[2] < b[2] THEN a[2] ELSE b[2]
         IN Fl(a[1] * 2 ^ (a[2] - e) + b[1] * 2 ^ (b[2] - e), e)

FSub(a, b) == FAdd(a, FNeg(b))

FMul(a, b) == Fl(a[1] * b[1], a[2] + b[2])

\* a / b for b # 0: the quotient is taken to FloatBits + 2 bits and a last
\* bit records a remainder, which rounds as the exact quotient does.
FDiv(a, b) ==
    LET s == FloatBits + 2 + BitLen(Abs(b[1]))
        q == (Abs(a[1]) * 2 ^ s) \div Abs(b[1])
        r == (Abs(a[1]) * 2 ^ s) % Abs(b[1])
    IN Fl(Sgn(a[1]) * Sgn(b[1]) * (2 * q + (IF r = 0 THEN 0 ELSE 1)),
          a[2] - b[2] - s - 1)

\* Rounding keeps the sign of a difference, so comparing is exact.
FLeq(a, b) == FSub(a, b)[1] <= 0
FGeq(a, b) == FSub(a, b)[1] >= 0
FZero == <<0, 0>>
FOne == <<1, 0>>

\* EGS_Vector operators on vectors of floats.
FVSub(p, q) == <<FSub(p[1], q[1]), FSub(p[2], q[2]), FSub(p[3], q[3])>>
FVAdd(p, q) == <<FAdd(p[1], q[1]), FAdd(p[2], q[2]), FAdd(p[3], q[3])>>
FVScale(k, p) == <<FMul(k, p[1]), FMul(k, p[2]), FMul(k, p[3])>>
FDot(p, q) ==
    FAdd(FAdd(FMul(p[1], q[1]), FMul(p[2], q[2])), FMul(p[3], q[3]))

region_A(d1, d2) == FLeq(d1, FZero) /\ FLeq(d2, FZero)

\* closest_point_triangle in EGS_Float arithmetic: the point returned and
\* the region whose return statement gave it.
closest_point_triangle_float(P, A, B, C) ==
    LET ab == FVSub(B, A)
        ac == FVSub(C, A)
        ao == FVSub(P, A)
        bo == FVSub(P, B)
        co == FVSub(P, C)
        InFace(va, vb, vc) ==
            LET Weighted(denom) ==
                  [point |-> FVAdd(FVAdd(A, FVScale(FMul(vb, denom), ab)),
                                   FVScale(FMul(vc, denom), ac)),
                   region |-> "face"]
            IN Weighted(FDiv(FOne, FAdd(FAdd(va, vb), vc)))
        EdgeBC(d3, d4, d5, d6, vb, vc) ==
            LET Test(va) ==
                  IF /\ FLeq(va, FZero) /\ FGeq(FSub(d4, d3), FZero)
                     /\ FGeq(FSub(d5, d6), FZero)
                  THEN [point |->
                          FVAdd(B, FVScale(FDiv(FSub(d4, d3),
                                                FAdd(FSub(d4, d3), FSub(d5, d6))),
                                           FVSub(C, B))),
                        region |-> "edge BC"]
                  ELSE InFace(va, vb, vc)
            IN Test(FSub(FMul(d3, d6), FMul(d5, d4)))
        EdgeAC(d1, d2, d3, d4, d5, d6, vc) ==
            LET Test(vb) ==
                  IF FLeq(vb, FZero) /\ FGeq(d2, FZero) /\ FLeq(d6, FZero)
                  THEN [point |-> FVAdd(A, FVScale(FDiv(d2, FSub(d2, d6)), ac)),
                        region |-> "edge AC"]
                  ELSE EdgeBC(d3, d4, d5, d6, vb, vc)
            IN Test(FSub(FMul(d5, d2), FMul(d1, d6)))
        VertexC(d1, d2, d3, d4, vc, d5, d6) ==
            IF FGeq(d6, FZero) /\ FLeq(d5, d6)
            THEN [point |-> C, region |-> "vertex C"]
            ELSE EdgeAC(d1, d2, d3, d4, d5, d6, vc)
        EdgeAB(d1, d2, d3, d4) ==
            LET Test(vc) ==
                  IF FLeq(vc, FZero) /\ FGeq(d1, FZero) /\ FLeq(d3, FZero)
                  THEN [point |-> FVAdd(A, FVScale(FDiv(d1, FSub(d1, d3)), ab)),
                        region |-> "edge AB"]
                  ELSE VertexC(d1, d2, d3, d4, vc, FDot(ab, co), FDot(ac, co))
            IN Test(FSub(FMul(d1, d4), FMul(d3, d2)))
        VertexB(d1, d2, d3, d4) ==
            IF FGeq(d3, FZero) /\ FLeq(d4, d3)
            THEN [point |-> B, region |-> "vertex B"]
            ELSE EdgeAB(d1, d2, d3, d4)
        VertexA(d1, d2) ==
            IF region_A(d1, d2) THEN [point |-> A, region |-> "vertex A"]
            ELSE VertexB(d1, d2, FDot(ab, bo), FDot(ac, bo))
    IN VertexA(FDot(ab, ao), FDot(ac, ao))

\* A call of closest_point_triangle on one of the triangles tris, given in
\* sixty-fourths, and one of its vertices.
Call_closest_point_triangle(tris) ==
    /\ pc = "no mesh"
    /\ \E tri \in tris, k \in 1 .. 3 :
         LET ToFloat(v) == <<Fl(v[1], -6), Fl(v[2], -6), Fl(v[3], -6)>>
             Result(r) ==
                 [op |-> "closest_point_triangle", tri |-> tri, vertex |-> k,
                  P |-> ToFloat(tri[k]), point |-> r.point, region |-> r.region]
         IN call' = Result(closest_point_triangle_float(
                        ToFloat(tri[k]), ToFloat(tri[1]), ToFloat(tri[2]),
                        ToFloat(tri[3])))
    /\ UNCHANGED <<pc, thrown, invars, shapevars, meshvars>>

----------------------------------------------------------------------------
(* EGS_DynamicShape.  A control point is kept as its time index, the rest  *)
(* of it being left alone by the constructor.  A time index is n / d as    *)
(* <<n, d>>; a division by 0 gives <<1, 0>> or <<-1, 0>> (infinite) or     *)
(* <<0, 0>> (not a number).                                                *)

TimeDiv(a, b) ==
    IF b[1] = 0 THEN <<Sgn(a[1]), 0>>
    ELSE Rat(a[1] * b[2], a[2] * b[1])

\* for (i = 0; i < npts - 1; i++) cpts[i].time /= cpts[npts-1].time
normalize_times(c) ==
    [i \in 1 .. Len(c) |->
        IF i < Len(c) THEN TimeDiv(c[i], c[Len(c)]) ELSE c[i]]

\* The warnings of the constructor for the control points c.
shape_warnings(c) ==
    IF Len(c) < 2 THEN {[w |-> "not enough control points", i |-> 0]}
    ELSE (IF c[1][1] > 0
          THEN {[w |-> "time index of control point 1 > 0", i |-> 0]}
          ELSE {})
         \cup {[w |-> "time index below the one before", i |-> i - 1] :
                  i \in {k \in 2 .. Len(c) : RLess(c[k], c[k - 1])}}
         \cup {[w |-> "time index < 0", i |-> i - 1] :
                  i \in {k \in 1 .. Len(c) : c[k][1] < 0}}

\* The constructor of EGS_DynamicShape once buildDynamicShape has filled
\* cpts from the input.
EGS_DynamicShape ==
    /\ pc = "shape built"
    /\ pc' = "shape ready"
    /\ cpts' = IF Len(cpts) < 2 THEN cpts ELSE normalize_times(cpts)
    /\ call' = [op |-> "EGS_DynamicShape", warnings |-> shape_warnings(cpts)]
    /\ UNCHANGED <<thrown, invars, meshvars, dyninp>>

closest_point_tetrahedron(P, A, B, C, Dr) ==
    LET faces == <<<<A, B, C, Dr>>, <<A, C, Dr, B>>, <<A, B, Dr, C>>,
                   <<B, Dr, C, A>>>>
        q == [k \in 1 .. 4 |->
                 closest_point_triangle(P, faces[k][1], faces[k][2], faces[k][3])]
        out == {k \in 1 .. 4 : point_outside_of_plane(P, faces[k][1],
                                   faces[k][2], faces[k][3], faces[k][4])}
        \* dis < min replaces the point only when strictly nearer
        best == {k \in out : \A g \in out :
                    /\ ~RLess(distance2(q[g], P), distance2(q[k], P))
                    /\ (g < k => RLess(distance2(q[k], P), distance2(q[g], P)))}
    IN IF out = {} THEN QPoint(P, 1) ELSE q[SetMin(best)]

----------------------------------------------------------------------------
(* hownear.  The code returns a distance; the model keeps its square,      *)
(* which orders the same way: [r, s, nan] is the rational r plus an        *)
(* amount far below every nonzero rational met, of sign s, or NaN.         *)

Val2(r, s) == [r |-> r, s |-> s, nan |-> FALSE]
NaN2 == [r |-> Zero, s |-> 0, nan |-> TRUE]

\* a / b < c / d for a, c >= 0 and b, d > 0, without forming a * d.
RECURSIVE FracLess(_, _, _, _)
FracLess(a, b, c, d) ==
    IF a \div b # c \div d THEN a \div b < c \div d
    ELSE IF c % d = 0 THEN FALSE
    ELSE IF a % b = 0 THEN TRUE
    ELSE FracLess(d, c % d, b, a % b)

\* x < y; false when either is NaN, as in the code.
V2Less(x, y) ==
    /\ ~x.nan /\ ~y.nan
    /\ \/ FracLess(x.r[1], x.r[2], y.r[1], y.r[2])
       \/ x.r = y.r /\ x.s < y.s
\* std::min(a, b)
V2Min(a, b) == IF V2Less(b, a) THEN b ELSE a

\* The square of a sum of squares of dual numbers e[1..3].
DSquares(e) ==
    LET lead == e[1][1] * e[1][1] + e[2][1] * e[2][1] + e[3][1] * e[3][1]
        first == e[1][1] * e[1][2] + e[2][1] * e[2][2] + e[3][1] * e[3][2]
        second == e[1][2] * e[1][2] + e[2][2] * e[2][2] + e[3][2] * e[3][2]
    IN Val2(Rat(lead, DualScale * DualScale),
            IF first # 0 THEN Sgn(first) ELSE Sgn(second))

min_interior_distance(bb, point) ==
    DMin(DSub(point[1], bb.min_x), DMin(DSub(point[2], bb.min_y),
    DMin(DSub(point[3], bb.min_z), DMin(DSub(bb.max_x, point[1]),
    DMin(DSub(bb.max_y, point[2]), DSub(bb.max_z, point[3]))))))

\* closest_point(point) - point, by coordinate.
closest_point_offset(bb, point) ==
    LET mins == <<bb.min_x, bb.min_y, bb.min_z>>
        maxs == <<bb.max_x, bb.max_y, bb.max_z>>
    IN [i \in 1 .. 3 |->
           IF DLess(maxs[i], point[i]) THEN DSub(maxs[i], point[i])
           ELSE IF DLess(point[i], mins[i]) THEN DSub(mins[i], point[i])
           ELSE <<0, 0>>]

RECURSIVE LeafMin(_, _, _)
\* The loop of hownear_leaf_search over the members es.
LeafMin(es, p, best_dist2) ==
    IF es = <<>> THEN best_dist2
    ELSE LET n == element_nodes(Head(es))
             d == distance2(closest_point_tetrahedron(p, n[1], n[2], n[3], n[4]), p)
         IN LeafMin(Tail(es), p, V2Min(best_dist2, Val2(d, 0)))

hownear_leaf_search(node, p) ==
    LET best_dist == min_interior_distance(node.bbox_, DVec(p))
    IN LeafMin(node.elts_, p, DSquares(<<best_dist, <<0, 0>>, <<0, 0>>>>))

RECURSIVE Node_hownear_exterior(_, _)
Node_hownear_exterior(node, p) ==
    IF isLeaf(node) THEN hownear_leaf_search(node, p)
    ELSE Node_hownear_exterior(
             node.children_[findOctant(node, DPoint(DVec(p), 1))], p)

Octree_hownear_exterior(tree, p) ==
    IF ~contains(tree.root_.bbox_, DVec(p))
    THEN DSquares(closest_point_offset(tree.root_.bbox_, DVec(p)))
    ELSE Node_hownear_exterior(tree.root_, p)

\* |dot(unit_plane_normal, x - plane_point)|, squared.
distance_to_plane(x, unit_plane_normal, plane_point) ==
    IF unit_plane_normal.nan THEN NaN2
    ELSE LET k == dot(unit_plane_normal.dir, VSub(x, plane_point))
         IN Val2(Rat(k * k, length2(unit_plane_normal.dir)), 0)

min_interior_face_dist(ireg, x) ==
    LET n == element_nodes(ireg)
    IN V2Min(V2Min(V2Min(distance_to_plane(x, face_normals[ireg][0], n[2]),
                         distance_to_plane(x, face_normals[ireg][1], n[1])),
                   distance_to_plane(x, face_normals[ireg][2], n[1])),
             distance_to_plane(x, face_normals[ireg][3], n[1]))

min_exterior_face_dist(x) == Octree_hownear_exterior(surface_tree, x)

\* A faulty variant: hownear makes no check of ireg.
hownear_throws_never(ireg) == FALSE

hownear_throws(ireg) == ireg > 0 /\ ireg > num_elements - 1

hownear(ireg, x) ==
    IF ireg >= 0 THEN min_interior_face_dist(ireg, x)
    ELSE min_exterior_face_dist(x)

\* A call of hownear on a region of iregs and a position of xs.
Call_hownear(iregs, xs) ==
    /\ pc = "ready"
    /\ call = NoCall
    /\ \E ireg \in iregs, x \in xs :
         call' = IF hownear_throws(ireg)
                 THEN [op |-> "hownear", ireg |-> ireg, x |-> x,
                       returned |-> FALSE]
                 ELSE [op |-> "hownear", ireg |-> ireg, x |-> x,
                       returned |-> TRUE, ret2 |-> hownear(ireg, x)]
    /\ UNCHANGED <<pc, thrown, invars, shapevars, meshvars>>

----------------------------------------------------------------------------

\* EGS_BaseGeometry::halfBoundaryTolerance is half the boundary tolerance,
\* which setBoundaryTolerance changes.  The default is far below every
\* nonzero distance between the positions and faces met here, so under it
\* dist <= halfBoundaryTolerance holds exactly when dist = 0: it is kept as 0.
DefaultTolerance == Zero
WideTolerance == <<1, 1>>

InitWith(inputs, tolerances) ==
    /\ pc = "constructing"
    /\ thrown = "none"
    /\ \E inp \in inputs :
          /\ in_elements = inp.elements
          /\ in_nodes = inp.nodes
          /\ in_materials = inp.materials
    /\ nreg = 0
    /\ elt_tags = EmptyVec
    /\ elt_node_indices = EmptyVec
    /\ nodes = EmptyVec
    /\ medium_names = EmptyVec
    /\ medium_indices = EmptyVec
    /\ neighbours = EmptyVec
    /\ boundary_faces = EmptyVec
    /\ face_normals = EmptyVec
    /\ volume_tree = NullTree
    /\ surface_tree = NullTree
    /\ halfBoundaryTolerance \in tolerances
    /\ dyninp = <<>> /\ cpts = <<>>
    /\ call = NoCall

\* What the caller holds in *normal before the call.
CallerNormal == [dir |-> <<0, 0, 0>>, nan |-> FALSE]

\* The caller takes the result of its query; the mesh is ready for the next.
Return ==
    /\ pc = "ready"
    /\ call # NoCall
    /\ call' = NoCall
    /\ UNCHANGED <<pc, thrown, invars, shapevars, meshvars>>

----------------------------------------------------------------------------
(* compFormulaPreprocess::compRes.  Arrays are indexed from 0 as in the    *)
(* code, the two input arrays are sequences, so that entry i of the code   *)
(* is entry i + 1 here.  Atom counts are of type float: here FloatBits     *)
(* stands for the 24 bits of its significand.  An array entry that has not *)
(* been assigned is outside the domain of the function that models the     *)
(* array.                                                                   *)

\* The table of atomic numbers by element symbol, for some of the elements.
per_table == ("H" :> 1) @@ ("C" :> 6) @@ ("O" :> 8) @@ ("Fm" :> 100)

perTableLength == 100

\* function f with the entry at k set to v
Assign(f, k, v) == [x \in DOMAIN f \cup {k} |-> IF x = k THEN v ELSE f[x]]

\* The loop over the input entries from entry i on.
RECURSIVE compRes_merge(_, _, _, _, _)
compRes_merge(inputElemArray, inputNumAtomArray, NEP, i, st) ==
    IF ~(i < NEP) THEN st
    ELSE LET zIndex == per_table[inputElemArray[i + 1]] - 1
         IN compRes_merge(inputElemArray, inputNumAtomArray, NEP, i + 1,
              IF st.elemPresent[zIndex] = 0
              THEN [elemPresent |-> Assign(st.elemPresent, zIndex, 1),
                    numAtomsArray |->
                        Assign(st.numAtomsArray, zIndex, inputNumAtomArray[i + 1]),
                    tempElemArray |->
                        Assign(st.tempElemArray, zIndex, inputElemArray[i + 1]),
                    numDiffAtoms |-> st.numDiffAtoms + 1]
              ELSE [st EXCEPT !.numAtomsArray =
                        Assign(st.numAtomsArray, zIndex,
                               FAdd(st.numAtomsArray[zIndex],
                                    inputNumAtomArray[i + 1]))])

\* The loop over the table from entry m on: the entries present are
\* appended in rising order to the arrays of compForm, the result so far.
compRes_collect(st, m, compForm) ==
    LET present == {z \in m .. (perTableLength - 1) : st.elemPresent[z] = 1}
        Nth(k) == CHOOSE z \in present :
                      Cardinality({y \in present : y < z}) = k - 1
    IN [compForm EXCEPT
          !.finalElemArray =
              @ \o [k \in 1 .. Cardinality(present) |-> st.tempElemArray[Nth(k)]],
          !.finalNumAtoms =
              @ \o [k \in 1 .. Cardinality(present) |-> st.numAtomsArray[Nth(k)]]]

\* A faulty variant: the input comes back as it is.
compRes_unmerged(inputElemArray, inputNumAtomArray, NEP) ==
    [finalNumOfElems |-> NEP, finalElemArray |-> inputElemArray,
     finalNumAtoms |-> inputNumAtomArray]

compRes(inputElemArray, inputNumAtomArray, NEP) ==
    LET Collect(st) ==
            compRes_collect(st, 0,
                [finalNumOfElems |-> st.numDiffAtoms,
                 finalElemArray |-> <<>>, finalNumAtoms |-> <<>>])
    IN Collect(compRes_merge(inputElemArray, inputNumAtomArray, NEP, 0,
                  [elemPresent |-> [z \in 0 .. (perTableLength - 1) |-> 0],
                   numAtomsArray |-> <<>>, tempElemArray |-> <<>>,
                   numDiffAtoms |-> 0]))

\* A call of compRes on one of the compounds.
Call_compRes(compounds) ==
    /\ pc = "no mesh"
    /\ call = NoCall
    /\ \E c \in compounds :
         call' = [op |-> "compRes", args |-> c,
                  result |-> compRes(c.elems, c.atoms, Len(c.elems))]
    /\ UNCHANGED <<pc, thrown, invars, shapevars, meshvars>>

----------------------------------------------------------------------------
(* Queries from several threads.  Each thread is in at most one query; a  *)
(* query reads the mesh from when it is called until it finishes, while    *)
(* the other threads call and finish theirs.  With threads, call is either *)
(* NoCall or [op |-> "threads", of |-> the call of each thread].           *)

Threads == {1, 2}

Slot(th) == IF call = NoCall THEN NoCall ELSE call.of[th]
SetSlot(th, v) ==
    LET Packed(f) == IF \A t \in Threads : f[t] = NoCall THEN NoCall
                     ELSE [op |-> "threads", of |-> f]
    IN Packed([t \in Threads |-> IF t = th THEN v ELSE Slot(t)])


\* What the query q gives on the mesh as it stands.
QueryResult(q) ==
    LET Out(r) ==
          IF r.path \in {"fatal", "bad intersection", "out of range"}
          THEN [returned |-> FALSE, path |-> r.path]
          ELSE [returned |-> TRUE, path |-> r.path, ret |-> r.ret, t |-> r.t,
                newmed |-> r.newmed, normal |-> r.normal]
    IN CASE q.op = "isWhere" ->
              [returned |-> TRUE, path |-> "isWhere", ret |-> isWhere(q.x)]
         [] q.op = "hownear" ->
              IF hownear_throws(q.ireg)
              THEN [returned |-> FALSE, path |-> "out of bounds"]
              ELSE IF q.ireg >= 0 /\ element_nodes_throws(q.ireg)
              THEN [returned |-> FALSE, path |-> "out of range"]
              ELSE [returned |-> TRUE, path |-> "hownear",
                    ret2 |-> hownear(q.ireg, q.x)]
         [] q.op = "medium" ->
              IF medium_throws(q.ireg)
              THEN [returned |-> FALSE, path |-> "out of range"]
              ELSE [returned |-> TRUE, path |-> "medium",
                    ret |-> medium(q.ireg)]
         [] q.op = "howfar" ->
              Out(IF howfar_throws(q.ireg) THEN [path |-> "out of range"]
                  ELSE howfar(q.ireg, q.x, q.u, q.t, q.newmed, q.normal))

\* The thread th calls one of the queries qs.
Thread_call(th, qs) ==
    /\ pc = "ready"
    /\ Slot(th) = NoCall
    /\ \E q \in qs : call' = SetSlot(th, [op |-> q.op, q |-> q, stage |-> "running"])
    /\ UNCHANGED <<pc, thrown, invars, shapevars, meshvars>>

\* A faulty variant: howfar keeps the normal it reports in the first normal
\* of the mesh.
Thread_finish_scratch_in_mesh(th) ==
    /\ pc = "ready"
    /\ Slot(th) # NoCall
    /\ Slot(th).stage = "running"
    /\ \E r \in {QueryResult(Slot(th).q)} :
         /\ pc' = IF r.path = "fatal" THEN "fatal" ELSE pc
         /\ call' = SetSlot(th, [op |-> Slot(th).op, q |-> Slot(th).q,
                                 stage |-> "done", res |-> r])
         /\ face_normals' =
               IF Slot(th).op = "howfar" /\ r.returned
               THEN [face_normals EXCEPT ![0] = [@ EXCEPT ![0] = r.normal]]
               ELSE face_normals
    /\ UNCHANGED <<nreg, elt_tags, elt_node_indices, nodes, medium_names,
                   medium_indices, neighbours, boundary_faces,
                   volume_tree, surface_tree>>
    /\ UNCHANGED <<thrown, invars, shapevars>>

\* The query of the thread th runs to its end: it returns, throws, or ends
\* the process in egsFatal.
Thread_finish(th) ==
    /\ pc = "ready"
    /\ Slot(th) # NoCall
    /\ Slot(th).stage = "running"
    /\ \E r \in {QueryResult(Slot(th).q)} :
         /\ pc' = IF r.path = "fatal" THEN "fatal" ELSE pc
         /\ call' = SetSlot(th, [op |-> Slot(th).op, q |-> Slot(th).q,
                                 stage |-> "done", res |-> r])
    /\ UNCHANGED <<thrown, invars, shapevars, meshvars>>

\* The thread th takes the result of its query.
Thread_return(th) ==
    /\ pc = "ready"
    /\ Slot(th) # NoCall
    /\ Slot(th).stage = "done"
    /\ call' = SetSlot(th, NoCall)
    /\ UNCHANGED <<pc, thrown, invars, shapevars, meshvars>>

InitBuild == InitWith(BuildInputs, {DefaultTolerance})
NextBuild ==
    \/ initializeElements
    \/ initializeNeighbours
    \/ initializeOctrees
    \/ initializeNormals
SpecBuild == InitBuild /\ [][NextBuild]_vars

\* Positions asked of the graded mesh.
GradedCoords == {-5, -2, 0, 2, 8, 20, 61}
GradedPositions == GradedCoords \X GradedCoords \X GradedCoords

\* Directions asked of the graded mesh from outside.
GradedDirections ==
    {Dir(<<1, 0, 0>>, 1), Dir(<<0, 0, -1>>, 1), Dir(<<-2, -1, -2>>, 3)}

InitGraded == InitWith(GradedInputs, {DefaultTolerance})
NextGraded ==
    \/ initializeElements
    \/ initializeNeighbours
    \/ initializeOctrees
    \/ initializeNormals
    \/ Call_isWhere(GradedPositions)
    \/ Call_hownear({-1}, GradedPositions)
    \/ Call_howfar({-1}, GradedPositions, GradedDirections, {veryFar},
                   -2, CallerNormal)
    \/ Return
SpecGraded == InitGraded /\ [][NextGraded]_vars

\* Rays towards the block from in front of it, beside the long tetrahedron.
ShadowPositions == {6, 8, 10, 12, 14} \X (-3 .. 1) \X (-4 .. 0)
InitShadow == InitWith(ShadowInputs, {DefaultTolerance})
NextShadow ==
    \/ initializeElements
    \/ initializeNeighbours
    \/ initializeOctrees
    \/ initializeNormals
    \/ Call_howfar({-1}, ShadowPositions, {Dir(<<-1, 0, 0>>, 1)}, {veryFar},
                   -2, CallerNormal)
    \/ Return
SpecShadow == InitShadow /\ [][NextShadow]_vars

----------------------------------------------------------------------------
(* Small meshes queried from every side.                                   *)
(*   chain: ABCD, BCDE, CDEF, each sharing a face with the next;           *)
(*   flat:  the same first two behind ABCG, whose four nodes lie in the    *)
(*          plane z = 0.                                                   *)

GeomPoints == <<<<0, 0, 0>>, <<4, 0, 0>>, <<0, 4, 0>>, <<0, 0, 4>>,
                <<4, 4, 4>>, <<0, 4, 4>>, <<4, 4, 0>>>>
GeomNodes == [i \in 1 .. 7 |-> NodeRec(i, GeomPoints[i])]
ChainElements == <<TetRec(1, 1, <<1, 2, 3, 4>>), TetRec(2, 2, <<2, 3, 4, 5>>),
                   TetRec(3, 1, <<3, 4, 5, 6>>)>>
FlatElements == <<TetRec(1, 2, <<1, 2, 3, 7>>), TetRec(2, 1, <<1, 2, 3, 4>>),
                  TetRec(3, 2, <<2, 3, 4, 5>>)>>
ChainInput ==
    [elements |-> ChainElements, nodes |-> GeomNodes, materials |-> BaseMedia]
FlatInput ==
    [elements |-> FlatElements, nodes |-> GeomNodes, materials |-> BaseMedia]

\* Positions: the integer grid from -1 to MaxCoord.
MaxCoord == 3
Positions == (-1 .. MaxCoord) \X (-1 .. MaxCoord) \X (-1 .. MaxCoord)
\* Unit directions.
Directions ==
    {Dir(<<1, 0, 0>>, 1), Dir(<<-1, 0, 0>>, 1), Dir(<<0, 1, 0>>, 1),
     Dir(<<0, -1, 0>>, 1), Dir(<<0, 0, 1>>, 1), Dir(<<0, 0, -1>>, 1),
     Dir(<<2, 2, 1>>, 3), Dir(<<-2, -1, -2>>, 3), Dir(<<1, -2, 2>>, 3)}
\* Step lengths offered as t.
Steps == {<<2, 1>>, veryFar}

Init ==
    \/ InitWith({ChainInput}, {WideTolerance})
    \/ InitWith({FlatInput}, {DefaultTolerance})
Next ==
    \/ initializeElements
    \/ initializeNeighbours
    \/ initializeOctrees
    \/ initializeNormals
    \/ Call_isWhere(Positions)
    \/ Call_howfar(-1 .. (nreg - 1), Positions, Directions, Steps, -2, CallerNormal)
    \/ Call_hownear(-1 .. (nreg - 1), Positions)
    \/ Return
Spec == Init /\ [][Next]_vars

\* Queries the threads make on the chain.
ThreadPositions == {<<1, 1, 1>>, <<-1, 1, 1>>, <<3, 3, 3>>}
ThreadDirections == {Dir(<<1, 0, 0>>, 1), Dir(<<-2, -1, -2>>, 3)}
\* Regions asked of: outside (-1), the elements, and two past the last.
ThreadRegions == -1 .. (Len(ChainElements) + 1)
ThreadQueries ==
    {[op |-> "isWhere", x |-> x] : x \in ThreadPositions}
    \cup {[op |-> "hownear", ireg |-> i, x |-> x] :
             i \in ThreadRegions, x \in ThreadPositions}
    \cup {[op |-> "medium", ireg |-> i] : i \in ThreadRegions \ {-1}}
    \cup {[op |-> "howfar", ireg |-> i, x |-> x, u |-> u, t |-> veryFar,
           newmed |-> -2, normal |-> CallerNormal] :
             i \in ThreadRegions, x \in ThreadPositions,
             u \in ThreadDirections}

InitThreads == InitWith({ChainInput}, {WideTolerance})
NextThreads ==
    \/ initializeElements
    \/ initializeNeighbours
    \/ initializeOctrees
    \/ initializeNormals
    \/ \E th \in Threads : Thread_call(th, ThreadQueries)
    \/ \E th \in Threads : Thread_finish(th)
    \/ \E th \in Threads : Thread_return(th)
SpecThreads == InitThreads /\ [][NextThreads]_vars

\* Triangles for closest_point_triangle, in sixty-fourths: the vertices
\* (0,0,0), (1,0,0) and one of the plane z = 0 off the line through them,
\* in each of the six orders.
TriangleCoords == {0, 1, 32, 64}
Triangles ==
    LET base == {<<<<0, 0, 0>>, <<64, 0, 0>>, <<x, y, 0>>>> :
                    x \in TriangleCoords, y \in TriangleCoords \ {0}}
        orders == {f \in [1 .. 3 -> 1 .. 3] : {f[1], f[2], f[3]} = 1 .. 3}
    IN {<<t[f[1]], t[f[2]], t[f[3]]>> : t \in base, f \in orders}

NoMeshInit ==
    /\ pc = "no mesh"
    /\ thrown = "none"
    /\ in_elements = <<>> /\ in_nodes = <<>> /\ in_materials = <<>>
    /\ nreg = 0
    /\ elt_tags = EmptyVec
    /\ elt_node_indices = EmptyVec
    /\ nodes = EmptyVec
    /\ medium_names = EmptyVec
    /\ medium_indices = EmptyVec
    /\ neighbours = EmptyVec
    /\ boundary_faces = EmptyVec
    /\ face_normals = EmptyVec
    /\ volume_tree = NullTree
    /\ surface_tree = NullTree
    /\ halfBoundaryTolerance = DefaultTolerance
    /\ dyninp = <<>> /\ cpts = <<>>
    /\ call = NoCall
InitTriangle == NoMeshInit
NextTriangle == Call_closest_point_triangle(Triangles)
SpecTriangle == InitTriangle /\ [][NextTriangle]_vars

\* Control points given to a dynamic shape: up to MaxPoints of them, with
\* whole time indices from -1 to MaxTime.
MaxPoints == 3
MaxTime == 3
ShapeInputs ==
    UNION {[1 .. n -> {<<t, 1>> : t \in -1 .. MaxTime}] : n \in 0 .. MaxPoints}

InitShape ==
    /\ pc = "shape built"
    /\ thrown = "none"
    /\ in_elements = <<>> /\ in_nodes = <<>> /\ in_materials = <<>>
    /\ nreg = 0
    /\ elt_tags = EmptyVec
    /\ elt_node_indices = EmptyVec
    /\ nodes = EmptyVec
    /\ medium_names = EmptyVec
    /\ medium_indices = EmptyVec
    /\ neighbours = EmptyVec
    /\ boundary_faces = EmptyVec
    /\ face_normals = EmptyVec
    /\ volume_tree = NullTree
    /\ surface_tree = NullTree
    /\ halfBoundaryTolerance = DefaultTolerance
    /\ dyninp \in ShapeInputs
    /\ cpts = dyninp
    /\ call = NoCall
NextShape == EGS_DynamicShape
SpecShape == InitShape /\ [][NextShape]_vars

\* Boxes to divide: on each axis from 0 to 4 or from -2 to 2, as they are
\* or expanded by eps; positions on the integer grid around them.
OctantBoxes ==
    LET sides == {<<0, 4>>, <<-2, 2>>}
        plain == {BoundingBox(D(x[1]), D(x[2]), D(y[1]), D(y[2]), D(z[1]), D(z[2])) :
                     x \in sides, y \in sides, z \in sides}
    IN plain \cup {expand(bb, eps) : bb \in plain}
OctantPositions == (-2 .. 4) \X (-2 .. 4) \X (-2 .. 4)
InitOctant == NoMeshInit
NextOctant == Call_findOctant(OctantBoxes, OctantPositions)
SpecOctant == InitOctant /\ [][NextOctant]_vars

\* Compounds of up to MaxNEP entries; atom counts of a half, one and one
\* and a half.
MaxNEP == 3
CompoundSymbols == {"H", "O", "Fm"}
CompoundCounts == {Fl(h, -1) : h \in 1 .. 3}
Compounds ==
    UNION {{[elems |-> e, atoms |-> a] :
               e \in [1 .. n -> CompoundSymbols], a \in [1 .. n -> CompoundCounts]} :
           n \in 1 .. MaxNEP}
InitCompound == NoMeshInit
NextCompound == Call_compRes(Compounds)
SpecCompound == InitCompound /\ [][NextCompound]_vars

\* A fan of 100 tetrahedra about the origin, each with a face on the
\* boundary: the apex is joined to the 100 triangles of a grid of 10 by 5
\* squares in the plane z = 1.
FanTag(i, j) == 2 + i + 11 * j
FanNodes ==
    [t \in 1 .. 67 |->
        IF t = 1 THEN NodeRec(1, <<0, 0, 0>>)
        ELSE NodeRec(t, <<(t - 2) % 11, (t - 2) \div 11, 1>>)]
FanElements ==
    [e \in 1 .. 100 |->
        LET i == ((e - 1) \div 2) % 10
            j == (e - 1) \div 20
        IN IF e % 2 = 1
           THEN TetRec(e, 1, <<1, FanTag(i, j), FanTag(i + 1, j), FanTag(i + 1, j + 1)>>)
           ELSE TetRec(e, 1, <<1, FanTag(i, j), FanTag(i + 1, j + 1), FanTag(i, j + 1)>>)]
FanInputs ==
    { [elements |-> FanElements, nodes |-> FanNodes, materials |-> BaseMedia] }
\* Boxes about the apex of the fan, a few eps wide: from 0 to 64 eps along
\* z and from 0 or from -64 eps to 64 eps along x and y.
FanBoxes ==
    LET sides == {<<0, 64>>, <<-64, 64>>}
    IN {BoundingBox(DScale(x[1], eps), DScale(x[2], eps),
                    DScale(y[1], eps), DScale(y[2], eps),
                    <<0, 0>>, DScale(64, eps)) :
           x \in sides, y \in sides}
InitSubdivide == InitWith(FanInputs, {DefaultTolerance})
NextSubdivide ==
    \/ initializeElements
    \/ initializeNeighbours
    \/ Node_begin(FanBoxes, n_surf)
    \/ Node_step
SpecSubdivide == InitSubdivide /\ [][NextSubdivide]_vars /\ WF_vars(NextSubdivide)

----------------------------------------------------------------------------
(* Properties.  A query leaves the mesh as it was, so what a call should   *)
(* have returned is computed again from its arguments in the state that    *)
(* holds its result.                                                       *)

HowfarCalled == call.op = "howfar"
HowfarReturned == call.op = "howfar" /\ call.returned
HowfarInside == call.op = "howfar" /\ call.args.ireg >= 0
HowfarOutside == call.op = "howfar" /\ call.args.ireg < 0

\* p and the node opposite to the face are strictly on the same side of
\* each face of the tetrahedron n.
StrictlySameSide(P, A, B, C, Dr) ==
    Sgn(dot(VSub(P, A), cross(VSub(B, A), VSub(C, A))))
        * Sgn(dot(VSub(Dr, A), cross(VSub(B, A), VSub(C, A)))) > 0
StrictlyInside(n, p) ==
    /\ StrictlySameSide(p, n[1], n[2], n[3], n[4])
    /\ StrictlySameSide(p, n[1], n[3], n[4], n[2])
    /\ StrictlySameSide(p, n[1], n[2], n[4], n[3])
    /\ StrictlySameSide(p, n[2], n[3], n[4], n[1])

\* C1: for a point strictly inside tetrahedron r and inside no other,
\* isWhere returns r.
C1_PointLocate ==
    call.op = "isWhere" =>
        \A r \in 0 .. (nreg - 1) :
            (/\ StrictlyInside(element_nodes(r), call.x)
             /\ \A o \in (0 .. (nreg - 1)) \ {r} : ~insideElement(o, call.x))
            => call.ret = r

\* The faces of the region of a howfar call that qualify: hit by the
\* interior test at no more than the t passed in.
Qualifying ==
    {i \in 0 .. 3 :
        LET test == InteriorFaceTest(call.args.ireg, call.args.x, call.args.u, i)
        IN test.hit /\ RLeq(test.dist, call.args.t)}
FaceDist(i) == InteriorFaceTest(call.args.ireg, call.args.x, call.args.u, i).dist
NearestQualifying == {i \in Qualifying : \A j \in Qualifying : RLeq(FaceDist(i), FaceDist(j))}

\* C2, as claimed: from inside r with some face qualifying, the distance
\* reported is the least distance of a qualifying face and the region
\* returned is the neighbour across such a face.
C2_ReportsMinimum ==
    (HowfarReturned /\ HowfarInside /\ Qualifying # {}) =>
        \E i \in NearestQualifying :
            /\ call.t = FaceDist(i)
            /\ call.ret = neighbours[call.args.ireg][i]

\* C2, amended: the distance reported is the least distance of a
\* qualifying face, or exactly 0 when that distance is at or below
\* halfBoundaryTolerance; the region is the neighbour across such a face.
C2_ReportsSnappedMinimum ==
    (HowfarReturned /\ HowfarInside /\ Qualifying # {}) =>
        \E i \in NearestQualifying :
            /\ call.t = IF RLeq(FaceDist(i), halfBoundaryTolerance)
                        THEN Zero ELSE FaceDist(i)
            /\ call.ret = neighbours[call.args.ireg][i]

C2_Witness ==
    /\ HowfarReturned /\ HowfarInside
    /\ Cardinality(Qualifying) >= 2
    /\ RLess(Zero, call.t)
    /\ call.ret = -1

\* The face howfar_interior crosses, -1 when none.
Chosen == first_face_within(call.args.ireg, call.args.x, call.args.u, call.args.t)

\* C3: from inside r, when the distance to the face crossed is at or below
\* halfBoundaryTolerance, t is exactly 0 and the region returned is the
\* neighbour across that face.
C3_SnapsToZero ==
    (HowfarReturned /\ HowfarInside /\ Chosen # -1
        /\ RLeq(FaceDist(Chosen), halfBoundaryTolerance)) =>
            /\ call.t = Zero
            /\ call.ret = neighbours[call.args.ireg][Chosen]

C3_Witness ==
    /\ HowfarReturned /\ HowfarInside /\ Chosen # -1
    /\ RLess(Zero, FaceDist(Chosen))
    /\ RLeq(FaceDist(Chosen), halfBoundaryTolerance)
    /\ call.t = Zero

\* No face of the region of a howfar call is hit by the interior test.
Lost == \A i \in 0 .. 3 :
            ~InteriorFaceTest(call.args.ireg, call.args.x, call.args.u, i).hit
\* The neighbour-table entries of the region that hold the position.
HoldingNeighbours ==
    {i \in 0 .. 3 :
        /\ neighbours[call.args.ireg][i] # -1
        /\ insideElement(neighbours[call.args.ireg][i], call.args.x)}

\* C4: a lost particle that is recovered is put in the first neighbour, in
\* table order, that holds the position, and in the region isWhere finds
\* only when no neighbour does; t is exactly 0 and the caller's normal is
\* as it was.
C4_LostParticleRecovery ==
    (HowfarReturned /\ HowfarInside /\ Lost) =>
        /\ call.ret = IF HoldingNeighbours # {}
                      THEN neighbours[call.args.ireg][SetMin(HoldingNeighbours)]
                      ELSE isWhere(call.args.x)
        /\ call.t = Zero
        /\ call.normal = call.args.normal

C4_Witness ==
    /\ HowfarReturned /\ HowfarInside /\ Lost
    /\ HoldingNeighbours # {}
    /\ isWhere(call.args.x) # call.ret
    /\ call.t = Zero

\* C5: when a particle is lost, no neighbour holds the position and
\* isWhere returns the region itself, the call ends the run and returns
\* nothing; no call returns its own region from the lost-particle path.
C5_FatalNeverReturns ==
    /\ (HowfarCalled /\ HowfarInside /\ Lost /\ HoldingNeighbours = {}
            /\ isWhere(call.args.x) = call.args.ireg)
        => (~call.returned /\ pc = "fatal")
    /\ (HowfarReturned /\ HowfarInside /\ Lost) => call.ret # call.args.ireg
    /\ pc = "fatal" => (HowfarCalled /\ ~call.returned)

C5_Witness ==
    /\ pc = "fatal"
    /\ HowfarCalled /\ HowfarInside /\ Lost
    /\ isWhere(call.args.x) = call.args.ireg

\* The result of the ray cast on the surface tree for a howfar call.
RayCast == Octree_howfar_exterior(surface_tree, call.args.x, call.args.u,
                                  call.args.t, veryFar)

\* C6: from outside, when the ray cast finds no boundary face hit at no
\* more than t, howfar returns -1 and t, *newmed and *normal are as the
\* caller passed them.
C6_NoHitLeavesAll ==
    (HowfarReturned /\ HowfarOutside
        /\ (RayCast.ret = -1 \/ RLess(call.args.t, RayCast.t))) =>
            /\ call.ret = -1
            /\ call.t = call.args.t
            /\ call.newmed = call.args.newmed
            /\ call.normal = call.args.normal

C6_Witness ==
    /\ HowfarReturned /\ HowfarOutside
    /\ RayCast.ret # -1
    /\ RLess(call.args.t, RayCast.t)
    /\ call.ret = -1

\* The boundary faces of the region returned that the ray meets at the
\* distance reported.
FacesHit ==
    {f \in 0 .. 3 :
        LET fn == face_nodes(element_nodes(call.ret), f)
            hit == exterior_triangle_ray_intersection(call.args.x, call.args.u,
                                                      fn[1], fn[2], fn[3])
        IN /\ boundary_faces[4 * call.ret + f]
           /\ hit.hit
           /\ hit.dist = call.t}

\* C7: from outside with a hit at no more than t, the region returned is a
\* boundary element, *newmed is its medium, t is the distance to a
\* boundary face of it along the ray, and *normal is along the normal of
\* that face and does not point with the ray.
C7_HitReportsFace ==
    (HowfarReturned /\ HowfarOutside /\ call.ret # -1) =>
        /\ is_boundary(call.ret)
        /\ call.newmed = medium_indices[call.ret]
        /\ RLeq(call.t, call.args.t)
        /\ \E f \in FacesHit :
              /\ ~call.normal.nan
              /\ call.normal.dir # <<0, 0, 0>>
              /\ cross(call.normal.dir, face_normals[call.ret][f].dir) = <<0, 0, 0>>
              /\ dot(call.normal.dir, call.args.u.v) <= 0

C7_Witness ==
    /\ HowfarReturned /\ HowfarOutside /\ call.ret # -1
    /\ RLess(Zero, call.t)
    /\ call.args.t # veryFar
    /\ call.args.u.den > 1

\* The square of the distance from x to the nearest boundary face.
BoundaryFaceDist2(x) ==
    LET bf == {k \in 0 .. (4 * nreg - 1) : boundary_faces[k]}
        fn(k) == face_nodes(element_nodes(k \div 4), k % 4)
        ds == {distance2(closest_point_triangle(x, fn(k)[1], fn(k)[2], fn(k)[3]), x) :
                  k \in bf}
        bs == {d \in ds : \A e \in ds : ~FracLess(e[1], e[2], d[1], d[2])}
    IN CHOOSE d \in bs : TRUE

\* C8: from outside, hownear returns no more than the distance from the
\* position to the nearest boundary face.
C8_HownearLowerBound ==
    (call.op = "hownear" /\ call.returned /\ call.ireg < 0) =>
        /\ ~call.ret2.nan
        /\ ~V2Less(Val2(BoundaryFaceDist2(call.x), 0), call.ret2)

HasDuplicateTag(ns) ==
    \E i, j \in DOMAIN ns : i < j /\ ns[i].tag = ns[j].tag
\* Nothing of a mesh exists.
NoMesh ==
    /\ nreg = 0 /\ nodes = EmptyVec /\ elt_node_indices = EmptyVec
    /\ neighbours = EmptyVec /\ volume_tree = NullTree /\ surface_tree = NullTree

\* C9: when two node records share a tag, wherever they stand in the list,
\* construction fails with an error and no mesh exists.
C9_DuplicateTagFails ==
    HasDuplicateTag(in_nodes) =>
        /\ pc \in {"constructing", "failed"}
        /\ NoMesh
        /\ pc = "failed" => thrown # "none"

C9_Witness ==
    /\ pc = "failed"
    /\ thrown = "duplicate nodes in node list"
    /\ in_nodes[4].tag = in_nodes[5].tag
    /\ Cardinality({in_nodes[i].tag : i \in DOMAIN in_nodes}) = 4

RefTags(e) == <<e.a, e.b, e.c, e.d>>
HasAbsentTag(es, ns) ==
    \E i \in DOMAIN es, k \in 1 .. 4 :
        RefTags(es[i])[k] \notin {ns[j].tag : j \in DOMAIN ns}

\* C10: when an element refers to a tag no node record carries,
\* construction fails with an error; when construction gets past the
\* elements, every node index stored is the 0-based position of the node
\* record that carries the tag referred to.
C10_NodeReferences ==
    /\ HasAbsentTag(in_elements, in_nodes) =>
          /\ pc \in {"constructing", "failed"}
          /\ NoMesh
          /\ pc = "failed" => thrown # "none"
    /\ pc \notin {"constructing", "failed"} =>
          \A i \in DOMAIN in_elements, k \in 1 .. 4 :
              /\ elt_node_indices[i - 1][k - 1] \in 0 .. (Len(in_nodes) - 1)
              /\ in_nodes[elt_node_indices[i - 1][k - 1] + 1].tag
                     = RefTags(in_elements[i])[k]

C10_Witness ==
    /\ pc = "failed"
    /\ thrown = "No mesh node with tag"
    /\ ~HasDuplicateTag(in_nodes)
    /\ HasAbsentTag(in_elements, in_nodes)

MediaTags(ms) == {ms[j].tag : j \in DOMAIN ms}
HasUnknownMedium(es, ms) == \E i \in DOMAIN es : es[i].medium_tag \notin MediaTags(ms)

\* C11: construction gets past the mesh store only if the medium tags are
\* pairwise distinct and every element's medium tag is the tag of a medium
\* record; otherwise it fails with an error.  When it succeeds, medium(r)
\* is the 0-based offset of the medium record carrying the medium tag of
\* element r.
C11_MediumOffsets ==
    /\ (HasDuplicateTag(in_materials) \/ HasUnknownMedium(in_elements, in_materials)) =>
          /\ pc \in {"constructing", "failed"}
          /\ NoMesh
          /\ pc = "failed" => thrown # "none"
    /\ pc \notin {"constructing", "failed"} =>
          \A i \in DOMAIN in_elements :
              /\ medium(i - 1) \in 0 .. (Len(in_materials) - 1)
              /\ in_materials[medium(i - 1) + 1].tag = in_elements[i].medium_tag

C11_Witness ==
    /\ pc \notin {"constructing", "failed"}
    /\ in_materials[1].tag > in_materials[2].tag
    /\ in_elements[1].medium_tag = in_materials[2].tag
    /\ medium(0) = 1

\* The neighbour table has been built.
NeighboursBuilt == pc \in {"neighbours", "octrees", "ready", "fatal"}

\* C13: once the neighbour table is built, the flag at 4 * e + f is true
\* exactly when the table has the no-neighbour sentinel for face f of e.
C13_BoundaryFlags ==
    NeighboursBuilt =>
        /\ DOMAIN boundary_faces = 0 .. (4 * nreg - 1)
        /\ \A e \in 0 .. (nreg - 1), f \in 0 .. 3 :
               boundary_faces[4 * e + f] <=> (neighbours[e][f] = -1)

\* An element with a neighbour across one face and none across another.
C13_Witness ==
    /\ pc = "ready"
    /\ \E e \in 0 .. (nreg - 1), f, g \in 0 .. 3 :
          /\ boundary_faces[4 * e + f] /\ neighbours[e][f] = -1
          /\ ~boundary_faces[4 * e + g] /\ neighbours[e][g] # -1

\* The mesh is constructed.
Constructed == pc \in {"ready", "fatal"}
\* The four nodes <<A, B, C, D>> span a volume.
NonDegenerate(n) ==
    dot(VSub(n[2], n[1]), cross(VSub(n[3], n[1]), VSub(n[4], n[1]))) # 0
\* The stored normal i of element e is a normal of the face opposite node i.
NormalOfFace(e, i) ==
    LET fn == face_nodes(element_nodes(e), i)
        nrm == face_normals[e][i]
    IN /\ ~nrm.nan
       /\ nrm.dir # <<0, 0, 0>>
       /\ dot(nrm.dir, VSub(fn[2], fn[1])) = 0
       /\ dot(nrm.dir, VSub(fn[3], fn[1])) = 0
\* dot(normal_i, opposite_vertex - point_on_face_i)
TowardsOpposite(e, i) ==
    dot(face_normals[e][i].dir,
        VSub(element_nodes(e)[i + 1], face_nodes(element_nodes(e), i)[1]))

\* C14 as stated: stored normal i of a non-degenerate element belongs to
\* the face opposite node i and points away from the opposite vertex.
C14_NormalsOutward ==
    Constructed =>
        \A e \in 0 .. (nreg - 1) : NonDegenerate(element_nodes(e)) =>
            \A i \in 0 .. 3 : NormalOfFace(e, i) /\ TowardsOpposite(e, i) < 0

\* C14 amended: stored normal i of a non-degenerate element belongs to the
\* face opposite node i and points towards the opposite vertex, into the
\* element.
C14_NormalsInward ==
    Constructed =>
        \A e \in 0 .. (nreg - 1) : NonDegenerate(element_nodes(e)) =>
            \A i \in 0 .. 3 : NormalOfFace(e, i) /\ TowardsOpposite(e, i) > 0

\* A face whose cross product came out pointing away from the opposite
\* vertex and was turned.
C14_Witness ==
    /\ Constructed
    /\ \E e \in 0 .. (nreg - 1), i \in 0 .. 3 :
          LET fn == face_nodes(element_nodes(e), i)
          IN /\ NonDegenerate(element_nodes(e))
             /\ dot(cross(VSub(fn[2], fn[1]), VSub(fn[3], fn[1])),
                    VSub(element_nodes(e)[i + 1], fn[1])) < 0
             /\ TowardsOpposite(e, i) > 0

\* The node tags of face f (the one opposite node f) of an element record.
FaceTags(e, f) == {RefTags(e)[m] : m \in (1 .. 4) \ {f}}
\* Three element records have a face, a triple of node tags, in common.
ThreeShareFace(es) ==
    \E i, j, k \in DOMAIN es : \E fi, fj, fk \in 1 .. 4 :
        /\ i < j /\ j < k
        /\ Cardinality(FaceTags(es[i], fi)) = 3
        /\ FaceTags(es[i], fi) = FaceTags(es[j], fj)
        /\ FaceTags(es[i], fi) = FaceTags(es[k], fk)

\* C15: when three or more elements share a face, construction fails with
\* an error and no neighbour table, and nothing built after it, exists.
C15_NonManifoldFails ==
    ThreeShareFace(in_elements) =>
        /\ pc \in {"constructing", "elements", "failed"}
        /\ neighbours = EmptyVec /\ boundary_faces = EmptyVec
        /\ volume_tree = NullTree /\ surface_tree = NullTree
        /\ pc = "failed" => thrown # "none"

C15_Witness ==
    /\ ThreeShareFace(in_elements)
    /\ \A i \in DOMAIN in_elements : Cardinality(Range(RefTags(in_elements[i]))) = 4
    /\ pc = "failed"
    /\ thrown = "more than two elements share a face"
    /\ nreg = 3

\* What each construction step leaves behind.
StoreBuilt == elt_node_indices # EmptyVec /\ nodes # EmptyVec
GraphBuilt == neighbours # EmptyVec /\ boundary_faces # EmptyVec
NormalsBuilt == face_normals # EmptyVec
OctreesBuilt == volume_tree # NullTree /\ surface_tree # NullTree
AnyOctreeBuilt == volume_tree # NullTree \/ surface_tree # NullTree

C17_QueriesReadOnly ==
    /\ [][pc = "ready" => meshvars' = meshvars]_vars
    /\ [](\A th \in Threads :
            (Slot(th) # NoCall /\ Slot(th).stage = "done")
               => Slot(th).res = QueryResult(Slot(th).q))

\* A howfar has finished while a query of another thread was running, and
\* that one has finished as well.
C17_Witness ==
    \E t1, t2 \in Threads :
        /\ t1 # t2
        /\ Slot(t1) # NoCall /\ Slot(t2) # NoCall
        /\ Slot(t1).stage = "done" /\ Slot(t2).stage = "done"
        /\ Slot(t1).op = "howfar" /\ Slot(t1).res.returned
        /\ Slot(t2).op = "hownear" /\ Slot(t2).res.returned
        /\ Slot(t1).q.ireg = 0 /\ Slot(t2).q.ireg = 0

\* C18: a finished hownear, howfar or medium on a region index at or past
\* the number of elements has not returned: hownear has thrown from its
\* own bounds check, medium and howfar from the checked access they start
\* with, before any element data is read.
C18_OutOfBoundsRaises ==
    \A th \in Threads :
        (/\ Slot(th) # NoCall
         /\ Slot(th).stage = "done"
         /\ Slot(th).op \in {"hownear", "howfar", "medium"}
         /\ Slot(th).q.ireg >= num_elements)
           => /\ ~Slot(th).res.returned
              /\ Slot(th).res.path =
                    IF Slot(th).op = "hownear" THEN "out of bounds"
                    ELSE "out of range"

\* hownear has finished on the first region index past the end and howfar
\* on the second, and neither has returned.
C18_Witness ==
    /\ pc = "ready"
    /\ \E t1, t2 \in Threads :
         /\ t1 # t2
         /\ Slot(t1) # NoCall /\ Slot(t2) # NoCall
         /\ Slot(t1).stage = "done" /\ Slot(t2).stage = "done"
         /\ Slot(t1).op = "hownear" /\ Slot(t1).q.ireg = num_elements
         /\ ~Slot(t1).res.returned
         /\ Slot(t2).op = "howfar" /\ Slot(t2).q.ireg = num_elements + 1
         /\ ~Slot(t2).res.returned


\* The triangle of the call is not degenerate: its vertices are not on
\* one line, by exact arithmetic on the sixty-fourths.
TriangleNonDegenerate ==
    cross(VSub(call.tri[2], call.tri[1]), VSub(call.tri[3], call.tri[1]))
        # <<0, 0, 0>>

\* C19: closest_point_triangle on a vertex of a non-degenerate triangle
\* returns exactly that vertex, from the return statement of that vertex's
\* region.
C19_VertexReturnsVertex ==
    (call # NoCall /\ TriangleNonDegenerate)
       => /\ call.point = call.P
          /\ call.region = <<"vertex A", "vertex B", "vertex C">>[call.vertex]

\* The time indices of the input are not negative and do not decrease.
TimesOrdered ==
    /\ \A i \in 1 .. Len(dyninp) : dyninp[i][1] >= 0
    /\ \A i \in 2 .. Len(dyninp) : RLeq(dyninp[i - 1], dyninp[i])

\* C20: once a dynamic shape is constructed on N >= 2 control points,
\* every time index, the last one included, is the one of the input
\* divided by time(N) of the input; for time indices that are not negative
\* and do not decrease, with time(N) > 0, the last one is 1 and all are
\* in [0, 1].
C20_AllTimesNormalized ==
    (pc = "shape ready" /\ Len(dyninp) >= 2)
       => /\ \A i \in 1 .. Len(cpts) :
                cpts[i] = TimeDiv(dyninp[i], dyninp[Len(dyninp)])
          /\ (TimesOrdered /\ dyninp[Len(dyninp)][1] > 0)
                => /\ cpts[Len(cpts)] = <<1, 1>>
                   /\ \A i \in 1 .. Len(cpts) :
                         RLeq(Zero, cpts[i]) /\ RLeq(cpts[i], <<1, 1>>)
\* The least distance at which the ray from x along u meets a boundary face
\* that passes the face test of closest_boundary_face, over the boundary
\* elements es; DBL_MAX when it meets none.
NearestOfAll(es, x, u) ==
    LET Least(ds) == CHOOSE d \in ds : \A g \in ds : ~RLess(g, d)
    IN Least({closest_boundary_face(e, x, u).dist : e \in es} \cup {DBL_MAX})
BoundaryElements == {e \in 0 .. (num_elements - 1) : is_boundary(e)}

\* C21: when the surface tree returns an element for a ray from outside,
\* the distance it returns is the least over all boundary faces of all its
\* members.
C21_GloballyNearest ==
    (call.op = "howfar" /\ Constructed /\ call.args.ireg = -1)
       => LET Least(r) ==
                  r.ret # -1 =>
                      r.t = NearestOfAll(BoundaryElements, call.args.x,
                                         call.args.u)
          IN Least(Octree_howfar_exterior(surface_tree, call.args.x,
                       call.args.u, call.args.t, veryFar))
\* The members of the leaf that the descent for the position p ends in.
RECURSIVE LeafMembers(_, _)
LeafMembers(node, p) ==
    IF isLeaf(node) THEN Range(node.elts_)
    ELSE LeafMembers(node.children_[findOctant(node, DPoint(DVec(p), 1))], p)

\* C22: no split of the volume tree drops a member whose volume reaches
\* into the octant: a tetrahedron with the position of the call strictly
\* inside it overlaps every box of the descent for that position, so it
\* is a member of the leaf the descent ends in.
C22_NoMemberDropped ==
    (/\ call.op = "isWhere"
     /\ Constructed
     /\ contains(volume_tree.root_.bbox_, DVec(call.x)))
       => \A r \in 0 .. (nreg - 1) :
             StrictlyInside(element_nodes(r), call.x)
                => r \in LeafMembers(volume_tree.root_, call.x)
\* C23: when a box contains a position under the half-open test, exactly
\* one of its eight octants contains it, the one findOctant gives, and the
\* box reached by descending contains it too.
C23_OneOctantHolds ==
    (call.op = "findOctant" /\ call.inside)
       => /\ call.holders = {call.octant}
          /\ contains(call.below, DVec(call.p))

\* A position inside the box and on the middle plane of each axis.
C23_Witness ==
    /\ call.op = "findOctant" /\ call.inside
    /\ DVec(call.p) = <<mid_x(call.bbox), mid_y(call.bbox), mid_z(call.bbox)>>
    /\ call.octant = 7
\* Where the position of a howfar call is about the plane of face i of the
\* region: 1 on the side of the opposite node, the interior side, 0 on the
\* plane, -1 on the exterior side.  An element's nodes are A, B, C, D and
\* face i is the one without node i + 1.
OriginSide(i) ==
    LET n == element_nodes(call.args.ireg)
        fn == face_nodes(n, i)
        across == cross(VSub(fn[2], fn[1]), VSub(fn[3], fn[1]))
    IN Sgn(dot(across, VSub(call.args.x, fn[1])))
       * Sgn(dot(across, VSub(n[i + 1], fn[1])))
FaceAccepted(i) ==
    InteriorFaceTest(call.args.ireg, call.args.x, call.args.u, i).hit
AgainstNormal(i) ==
    dot(call.args.u.v, face_normals[call.args.ireg][i].dir) < 0

\* C24, as claimed: a face is accepted by the interior test only when the
\* direction points against the stored face normal and the origin is on
\* the face plane or on its exterior side.
C24_OriginOnOrOutside ==
    (HowfarCalled /\ HowfarInside) =>
        \A i \in 0 .. 3 :
            FaceAccepted(i) => (AgainstNormal(i) /\ OriginSide(i) <= 0)

\* C24, amended: a face is accepted by the interior test only when the
\* direction points against the stored face normal and the origin is on
\* the face plane or on its interior side.
C24_OriginOnOrInside ==
    (HowfarCalled /\ HowfarInside) =>
        \A i \in 0 .. 3 :
            FaceAccepted(i) => (AgainstNormal(i) /\ OriginSide(i) >= 0)

\* A face accepted from an origin strictly on its interior side, and a
\* face of the same element refused.
C24_Witness ==
    /\ HowfarReturned /\ HowfarInside
    /\ \E i \in 0 .. 3 : FaceAccepted(i) /\ OriginSide(i) = 1
    /\ \E i \in 0 .. 3 : ~FaceAccepted(i) /\ OriginSide(i) = -1
\* The faces of the region that pass the interior test for a howfar call.
Accepted == {i \in 0 .. 3 : FaceAccepted(i)}

\* C25: from inside r, when some face passes the interior test and every
\* such face is farther than t, howfar returns r, leaves t, *newmed and
\* *normal as the caller passed them, and the particle is not taken for
\* lost: the call returns.
C25_TooFarLeavesAll ==
    (HowfarCalled /\ HowfarInside /\ Accepted # {}
        /\ \A i \in Accepted : RLess(call.args.t, FaceDist(i))) =>
            /\ call.returned /\ pc # "fatal"
            /\ call.ret = call.args.ireg
            /\ call.t = call.args.t
            /\ call.newmed = call.args.newmed
            /\ call.normal = call.args.normal

C25_Witness ==
    /\ HowfarReturned /\ HowfarInside
    /\ Cardinality(Accepted) >= 2
    /\ \A i \in Accepted : RLess(call.args.t, FaceDist(i))
    /\ call.ret = call.args.ireg
    /\ call.t = call.args.t
\* The exact sum, in halves, of the atom counts given for the element sym
\* in the first n entries of the compound of a compRes call.
RECURSIVE HalvesOf(_, _)
HalvesOf(sym, n) ==
    IF n = 0 THEN 0
    ELSE HalvesOf(sym, n - 1)
         + (IF call.args.elems[n] = sym
            THEN call.args.atoms[n][1] * 2 ^ (call.args.atoms[n][2] + 1)
            ELSE 0)
InputSymbols == Range(call.args.elems)

RECURSIVE LeafCount(_)
LeafCount(node) ==
    IF isLeaf(node) THEN 1
    ELSE LeafCount(node.children_[0]) + LeafCount(node.children_[1])
         + LeafCount(node.children_[2]) + LeafCount(node.children_[3])
         + LeafCount(node.children_[4]) + LeafCount(node.children_[5])
         + LeafCount(node.children_[6]) + LeafCount(node.children_[7])
NodeDone == call.op = "Node" /\ call.pending = <<>>

\* C27: the construction of an octree node ends, also on a box about a
\* point that n_max tetrahedra or more share; every node divided has eight
\* children, so that the nodes made and still to make are one more than
\* eight times the nodes divided; a leaf has fewer members than n_max or
\* an indivisible box; the nodes made are those of Node.
C27_ConstructionEnds ==
    /\ <>NodeDone
    /\ [](call.op = "Node" =>
            /\ call.leaves + call.divided + Len(call.pending) = 1 + 8 * call.divided
            /\ \A bb \in call.full : is_indivisible(bb))
    /\ [](NodeDone =>
            call.leaves = LeafCount(Node(call.root.elts, call.root.bbox, call.n_max,
                              [i \in DOMAIN elt_node_indices |-> element_nodes(i)])))

\* A construction that has ended after dividing boxes on several levels,
\* with a leaf that holds all 100 tetrahedra in an indivisible box.
C27_Witness ==
    /\ NodeDone
    /\ call.divided >= 5
    /\ call.full # {}
    /\ Len(call.root.elts) = 100
\* What howfar returns when nothing is crossed: the region itself from
\* inside, -1 from outside.
NoCrossing == IF call.args.ireg >= 0 THEN call.args.ireg ELSE -1

\* C28: howfar, called with t >= 0, returns with t no greater than it was
\* given, and with t other than it was given only when the region returned
\* is not the one that stands for no crossing.
C28_NeverIncreasesT ==
    (HowfarReturned /\ RLeq(Zero, call.args.t)) =>
        /\ RLeq(call.t, call.args.t)
        /\ RLess(call.t, call.args.t) => call.ret # NoCrossing

\* From outside with a step of 2, a boundary face nearer than that.
C28_Witness ==
    /\ HowfarReturned /\ HowfarOutside
    /\ call.args.t = <<2, 1>>
    /\ RLess(Zero, call.t) /\ RLess(call.t, call.args.t)
    /\ call.ret >= 0
\* C29: a lost particle that howfar comes back with is in a region other
\* than the one it was called with: a neighbour of that region, not -1,
\* that holds the position, or what isWhere finds, which is another
\* region or -1.
C29_RecoveryLeavesRegion ==
    (HowfarReturned /\ HowfarInside /\ Lost) =>
        /\ call.ret # call.args.ireg
        /\ \/ /\ call.ret # -1
              /\ call.ret \in Range(neighbours[call.args.ireg])
              /\ insideElement(call.ret, call.args.x)
           \/ call.ret = isWhere(call.args.x)

\* A lost particle found by isWhere in an element that is not a neighbour.
C29_Witness ==
    /\ HowfarReturned /\ HowfarInside /\ Lost
    /\ HoldingNeighbours = {}
    /\ call.ret >= 0
    /\ call.ret \notin Range(neighbours[call.args.ireg])
    /\ call.ret = isWhere(call.args.x)
\* The member list of the leaf that the descent from node towards the
\* position p ends in.
RECURSIVE ReachedLeaf(_, _)
ReachedLeaf(node, p) ==
    IF isLeaf(node) THEN node.elts_
    ELSE ReachedLeaf(node.children_[findOctant(node, DPoint(DVec(p), 1))], p)

\* C30: when isWhere returns a region r other than -1, the position is in
\* the root box of the volume tree, r is a member of the leaf the descent
\* ends in, insideElement holds for r, and for no member before r in that
\* leaf.
C30_PointLocateSound ==
    (call.op = "isWhere" /\ Constructed /\ call.ret # -1) =>
        /\ contains(volume_tree.root_.bbox_, DVec(call.x))
        /\ insideElement(call.ret, call.x)
        /\ LET First(elts) ==
                  \E k \in 1 .. Len(elts) :
                      /\ elts[k] = call.ret
                      /\ \A j \in 1 .. (k - 1) : ~insideElement(elts[j], call.x)
           IN First(ReachedLeaf(volume_tree.root_, call.x))

\* A position found in a tree that is divided, in a leaf with several
\* members that hold it.
C30_Witness ==
    /\ call.op = "isWhere" /\ Constructed /\ call.ret # -1
    /\ ~isLeaf(volume_tree.root_)
    /\ LET Several(elts) ==
              Cardinality({k \in 1 .. Len(elts) : insideElement(elts[k], call.x)}) >= 2
       IN Several(ReachedLeaf(volume_tree.root_, call.x))
=============================================================================
